---------------------------- MODULE Spec2Model ----------------------------
(***************************************************************************)
(* A model of the document extraction of src/aiscript.py (class            *)
(* GeminiPDFProcessor): smart_text_split, parse_json_response,             *)
(* clean_json_string, merge_chunk_results, process_multi_chunk_document,   *)
(* upload_pdf_to_gemini, process_pdf_with_gemini, process_text_with_gemini *)
(* and process_directory.                                                  *)
(*                                                                         *)
(* Python str values are TLA+ strings; a character is a string of length   *)
(* one.  Python lists are sequences.                                       *)
(***************************************************************************)
EXTENDS Integers, Sequences, FiniteSets, TLC

VARIABLES
    text,           \* smart_text_split: the argument text
    max_chars,      \* smart_text_split: the argument max_chars
    paragraphs,     \* smart_text_split: paragraphs the for loop has not reached yet
    chunks,         \* smart_text_split: the local list chunks
    current_chunk,  \* smart_text_split: the local accumulator
    split_ret,      \* smart_text_split: the returned list
    split_pc,       \* smart_text_split: "call", "loop", "done"; "idle" when not run
    sent,           \* the extraction service: what it wrote into response_text
    response_text,  \* parse_json_response: the argument response_text
    method,         \* parse_json_response: the argument method
    cleaned_text,   \* parse_json_response: the local cleaned_text
    start_idx,      \* parse_json_response: the local start_idx (0-based, -1 = none)
    end_idx,        \* parse_json_response: the local end_idx (0-based, exclusive, -1 = none)
    json_str,       \* parse_json_response: the local json_str
    parse_ret,      \* parse_json_response: the returned dict
    parse_exc,      \* parse_json_response: the exception that left the function, or "none"
    parse_pc,       \* parse_json_response: "call", "scan", "scanned", "loads", "done",
                    \* "raised"; "idle" when not run
    chunk_results,  \* the list process_multi_chunk_document builds and passes to
                    \* merge_chunk_results as its argument chunk_results
    merged,         \* merge_chunk_results: the local dict merged
    merge_rest,     \* merge_chunk_results: entries the for loop has not reached yet
    merge_ret,      \* merge_chunk_results: the returned dict
    merge_pc,       \* merge_chunk_results: "call", "loop", "done"; "idle" when not run
    multi_chunks,   \* process_multi_chunk_document: the argument chunks
    multi_i,        \* process_multi_chunk_document: the loop index i (1-based)
    generate_calls, \* the extraction service: the generate_content calls it received
    sleeps,         \* the clock: for every time.sleep executed, the index i it followed
    multi_ret,      \* process_multi_chunk_document: the returned dict
    multi_pc,       \* process_multi_chunk_document: "call", "loop", "merge", "done";
                    \* "idle" when not run
    upload_path,    \* upload_pdf_to_gemini: the argument pdf_path
    uploaded_file,  \* upload_pdf_to_gemini: the local uploaded_file (name and state)
    upload_sleeps,  \* the clock: the time.sleep(2) calls of the polling loop
    upload_caught,  \* upload_pdf_to_gemini: the exception its handler caught, or "none"
    upload_ret,     \* upload_pdf_to_gemini: the returned handle, or None
    upload_pc,      \* upload_pdf_to_gemini: "call", "poll", "slept", "raised", "done";
                    \* "idle" when not run
    pdf_path,       \* process_pdf_with_gemini: the argument pdf_path
    pdf_response,   \* process_pdf_with_gemini: the local response_text
    pdf_text,       \* process_text_with_gemini: the local pdf_text
    delete_calls,   \* the service: the delete_file calls it received
    text_runs,      \* the calls of process_text_with_gemini
    pdf_ret,        \* process_pdf_with_gemini: the returned dict
    pdf_pc,         \* process_pdf_with_gemini and process_text_with_gemini: "call",
                    \* "upload", "generate", "cleanup", "parse", "fallback_cleanup",
                    \* "text", "split", "multi", "single", "done"; "idle" when not run
    pdf_files,      \* process_directory: the local list pdf_files
    dir_i,          \* process_directory: the loop index i (1-based)
    dir_results,    \* process_directory: the local dict results (its counters and
                    \* its list of entries)
    artifacts,      \* the output directory: the artifacts written, in order
    dir_sleeps,     \* the clock: for every time.sleep(delay_seconds), the index i
    dir_ret,        \* process_directory: the returned dict
    dir_pc          \* process_directory: "call", "loop", "done", "raised"; "idle" when
                    \* not run

split_vars == <<text, max_chars, paragraphs, chunks, current_chunk, split_ret, split_pc>>

parse_vars == <<sent, response_text, method, cleaned_text, start_idx, end_idx, json_str,
                parse_ret, parse_exc, parse_pc>>

merge_vars == <<chunk_results, merged, merge_rest, merge_ret, merge_pc>>

multi_vars == <<multi_chunks, multi_i, generate_calls, sleeps, multi_ret, multi_pc>>

upload_vars == <<upload_path, uploaded_file, upload_sleeps, upload_caught, upload_ret,
                 upload_pc>>

\* the variables of the callers of the extraction core
pdf_vars == <<pdf_path, pdf_response, pdf_text, delete_calls, text_runs, pdf_ret, pdf_pc>>

dir_vars == <<pdf_files, dir_i, dir_results, artifacts, dir_sleeps, dir_ret, dir_pc>>

outer_vars == <<upload_vars, pdf_vars, dir_vars>>

vars == <<split_vars, parse_vars, merge_vars, multi_vars, outer_vars>>

\* the variables of the extraction core
core_vars == <<split_vars, parse_vars, merge_vars, multi_vars>>

\* what a component leaves alone: the variables of the other components
vars_but_split == <<parse_vars, merge_vars, multi_vars, outer_vars>>
vars_but_parse == <<split_vars, merge_vars, multi_vars, outer_vars>>
vars_but_merge == <<split_vars, parse_vars, multi_vars, outer_vars>>
vars_but_upload == <<core_vars, pdf_vars, dir_vars>>

-----------------------------------------------------------------------------
(* Bounds of the model *)

\* longest text handed to smart_text_split
MaxTextLen == 7

\* largest max_chars handed to smart_text_split
MaxChars == 3

\* longest response text drawn character by character from ScanAlphabet
MaxRespLen == 4

\* most chunks of one document, and most entries of one list of chunk results
MaxChunks == 3

\* most times the service reports a file as PROCESSING before it reports
\* another state
MaxPolls == 3

\* the length that stands for max_chars = 100000 of process_text_with_gemini
\* (line 209)
TextMaxChars == 3

\* most documents of one directory
MaxDocs == 2

-----------------------------------------------------------------------------
(* Python str primitives *)

\* s[i-1:i], the i-th character (1-based); "" outside the string
Ch(s, i) == IF i >= 1 /\ i <= Len(s) THEN SubSeq(s, i, i) ELSE ""

\* s[:n]
Prefix(s, n) == SubSeq(s, 1, IF n < Len(s) THEN n ELSE Len(s))

\* s[n:]
Suffix(s, n) == SubSeq(s, n + 1, Len(s))

\* str.isspace() of one character, for the characters of the model
IsSpace(c) == c \in {" ", "\n", "\t", "\r", "\f"}

RECURSIVE LStrip(_)
LStrip(s) ==
    IF Len(s) > 0 /\ IsSpace(Ch(s, 1)) THEN LStrip(Suffix(s, 1)) ELSE s

RECURSIVE RStrip(_)
RStrip(s) ==
    IF Len(s) > 0 /\ IsSpace(Ch(s, Len(s))) THEN RStrip(Prefix(s, Len(s) - 1)) ELSE s

\* str.strip()
Strip(s) == RStrip(LStrip(s))

\* str.startswith / str.endswith
StartsWith(s, p) == Len(p) <= Len(s) /\ Prefix(s, Len(p)) = p
EndsWith(s, p) == Len(p) <= Len(s) /\ Suffix(s, Len(s) - Len(p)) = p

\* str.find(sep) + 1: the 1-based index of the first occurrence, 0 when absent
Find(s, sep) ==
    LET hits == {i \in 1..(Len(s) - Len(sep) + 1) : SubSeq(s, i, i + Len(sep) - 1) = sep}
    IN  IF hits = {} THEN 0 ELSE CHOOSE i \in hits : \A j \in hits : i <= j

\* sep in s
Contains(s, sep) == Find(s, sep) # 0

\* str.split(sep): the pieces between the non-overlapping occurrences, left to right
RECURSIVE Split(_, _)
Split(s, sep) ==
    LET i == Find(s, sep)
    IN  IF i = 0 THEN <<s>>
        ELSE <<Prefix(s, i - 1)>> \o Split(Suffix(s, i + Len(sep) - 1), sep)

\* "".join(list)
RECURSIVE Join(_)
Join(list) == IF list = <<>> THEN "" ELSE Head(list) \o Join(Tail(list))

\* the strings over alphabet A of length at most n
RECURSIVE Strings(_, _)
Strings(A, n) ==
    IF n = 0 THEN {""}
    ELSE LET S == Strings(A, n - 1)
         IN  S \cup {s \o c : s \in {x \in S : Len(x) = n - 1}, c \in A}

-----------------------------------------------------------------------------
(* smart_text_split, src/aiscript.py lines 235-272 *)

\* the characters of the texts: a word character, the two characters of the
\* sentence separator ". " and the character of the paragraph separator "\n\n"
SplitAlphabet == {"a", ".", " ", "\n"}

\* the body of `for sentence in sentences`, lines 256-265, on the locals
\* st = [chunks, current_chunk]
SentenceStep(st, sentence, mc) ==
    IF Len(st.current_chunk) + Len(sentence) + 2 > mc
    THEN IF st.current_chunk # ""
         THEN [chunks |-> Append(st.chunks, Strip(st.current_chunk)),
               current_chunk |-> sentence]
         ELSE [chunks |-> Append(st.chunks, Prefix(sentence, mc)),
               current_chunk |-> ""]
    ELSE [chunks |-> st.chunks,
          current_chunk |-> st.current_chunk \o sentence \o ". "]

\* the loop `for sentence in sentences`, lines 255-265
RECURSIVE SentenceLoop(_, _, _)
SentenceLoop(st, sentences, mc) ==
    IF sentences = <<>> THEN st
    ELSE SentenceLoop(SentenceStep(st, Head(sentences), mc), Tail(sentences), mc)

\* ParaStep with the flush forgetting to start the next chunk with para
ParaStep_DropsPara(st, para, mc) ==
    IF Len(st.current_chunk) + Len(para) + 2 > mc
    THEN IF st.current_chunk # ""
         THEN [chunks |-> Append(st.chunks, Strip(st.current_chunk)),
               current_chunk |-> ""]
         ELSE SentenceLoop(st, Split(para, ". "), mc)
    ELSE [chunks |-> st.chunks,
          current_chunk |-> st.current_chunk \o para \o "\n\n"]

\* the body of `for para in paragraphs`, lines 247-267
ParaStep(st, para, mc) ==
    IF Len(st.current_chunk) + Len(para) + 2 > mc
    THEN IF st.current_chunk # ""
         THEN [chunks |-> Append(st.chunks, Strip(st.current_chunk)),
               current_chunk |-> para]
         ELSE SentenceLoop(st, Split(para, ". "), mc)
    ELSE [chunks |-> st.chunks,
          current_chunk |-> st.current_chunk \o para \o "\n\n"]

\* the loop `for para in paragraphs`, lines 246-267
RECURSIVE ParaLoop(_, _, _)
ParaLoop(st, paras, mc) ==
    IF paras = <<>> THEN st
    ELSE ParaLoop(ParaStep(st, Head(paras), mc), Tail(paras), mc)

\* the final flush and the return value, lines 269-272
FinalFlush(st) ==
    IF Strip(st.current_chunk) # ""
    THEN Append(st.chunks, Strip(st.current_chunk))
    ELSE st.chunks

\* the whole function as a value: smart_text_split(text, max_chars)
smart_text_split(t, mc) ==
    IF Len(t) <= mc THEN <<t>>
    ELSE FinalFlush(ParaLoop([chunks |-> <<>>, current_chunk |-> ""],
                             Split(t, "\n\n"), mc))

\* SplitFastPath returning the stripped text
SplitFastPath_Strips ==
    /\ split_pc = "call"
    /\ Len(text) <= max_chars
    /\ split_ret' = <<Strip(text)>>
    /\ split_pc' = "done"
    /\ UNCHANGED <<text, max_chars, paragraphs, chunks, current_chunk>>
    /\ UNCHANGED vars_but_split

\* lines 237-238: the fast path
SplitFastPath ==
    /\ split_pc = "call"
    /\ Len(text) <= max_chars
    /\ split_ret' = <<text>>
    /\ split_pc' = "done"
    /\ UNCHANGED <<text, max_chars, paragraphs, chunks, current_chunk>>
    /\ UNCHANGED vars_but_split

\* lines 240-244: the locals of the slow path
SplitBegin ==
    /\ split_pc = "call"
    /\ ~(Len(text) <= max_chars)
    /\ chunks' = <<>>
    /\ current_chunk' = ""
    /\ paragraphs' = Split(text, "\n\n")
    /\ split_pc' = "loop"
    /\ UNCHANGED <<text, max_chars, split_ret>>
    /\ UNCHANGED vars_but_split

\* lines 246-267: one iteration of the paragraph loop
SplitParagraph ==
    /\ split_pc = "loop"
    /\ paragraphs # <<>>
    /\ LET st == ParaStep([chunks |-> chunks, current_chunk |-> current_chunk],
                          Head(paragraphs), max_chars)
       IN  /\ chunks' = st.chunks
           /\ current_chunk' = st.current_chunk
    /\ paragraphs' = Tail(paragraphs)
    /\ UNCHANGED <<text, max_chars, split_ret, split_pc>>
    /\ UNCHANGED vars_but_split

\* lines 269-272: the loop is over
SplitReturn ==
    /\ split_pc = "loop"
    /\ paragraphs = <<>>
    /\ split_ret' = FinalFlush([chunks |-> chunks, current_chunk |-> current_chunk])
    /\ chunks' = split_ret'
    /\ split_pc' = "done"
    /\ UNCHANGED <<text, max_chars, paragraphs, current_chunk>>
    /\ UNCHANGED vars_but_split

\* the parser's variables while parse_json_response is not running
ParseIdle ==
    /\ sent = ""
    /\ response_text = ""
    /\ method = ""
    /\ cleaned_text = ""
    /\ start_idx = -1
    /\ end_idx = -1
    /\ json_str = ""
    /\ parse_ret = <<>>
    /\ parse_exc = "none"
    /\ parse_pc = "idle"

\* the splitter's variables while smart_text_split is not running
SplitIdle ==
    /\ text = ""
    /\ max_chars = 0
    /\ paragraphs = <<>>
    /\ chunks = <<>>
    /\ current_chunk = ""
    /\ split_ret = <<>>
    /\ split_pc = "idle"

\* the merger's variables while merge_chunk_results is not running
MergeIdle ==
    /\ chunk_results = <<>>
    /\ merged = <<>>
    /\ merge_rest = <<>>
    /\ merge_ret = <<>>
    /\ merge_pc = "idle"

\* the orchestrator's variables while process_multi_chunk_document is not running
MultiIdle ==
    /\ multi_chunks = <<>>
    /\ multi_i = 0
    /\ generate_calls = <<>>
    /\ sleeps = <<>>
    /\ multi_ret = <<>>
    /\ multi_pc = "idle"

\* the variables of upload_pdf_to_gemini while it is not running
UploadIdle ==
    /\ upload_path = ""
    /\ uploaded_file = <<>>
    /\ upload_sleeps = 0
    /\ upload_caught = "none"
    /\ upload_ret = <<>>
    /\ upload_pc = "idle"

\* the variables of process_pdf_with_gemini while it is not running
PdfIdle ==
    /\ pdf_path = ""
    /\ pdf_response = ""
    /\ pdf_text = ""
    /\ delete_calls = <<>>
    /\ text_runs = 0
    /\ pdf_ret = <<>>
    /\ pdf_pc = "idle"

\* the variables of process_directory while it is not running
DirIdle ==
    /\ pdf_files = <<>>
    /\ dir_i = 0
    /\ dir_results = <<>>
    /\ artifacts = <<>>
    /\ dir_sleeps = <<>>
    /\ dir_ret = <<>>
    /\ dir_pc = "idle"

\* the callers of the extraction core while none of them is running
OuterIdle == UploadIdle /\ PdfIdle /\ DirIdle

SplitInit ==
    /\ text \in Strings(SplitAlphabet, MaxTextLen)
    /\ max_chars \in 1..MaxChars
    /\ paragraphs = <<>>
    /\ chunks = <<>>
    /\ current_chunk = ""
    /\ split_ret = <<>>
    /\ split_pc = "call"
    /\ ParseIdle
    /\ MergeIdle
    /\ MultiIdle
    /\ OuterIdle

SplitNext == SplitFastPath \/ SplitBegin \/ SplitParagraph \/ SplitReturn

SpecSplit == SplitInit /\ [][SplitNext]_vars

-----------------------------------------------------------------------------
(* JSON values: what json.loads returns *)

\* a Python int, a str, a list and a dict with str keys
Num(n) == [t |-> "num", v |-> n]
Str(s) == [t |-> "str", v |-> s]
Arr(a) == [t |-> "arr", v |-> a]
Obj(f) == [t |-> "obj", v |-> f]

\* dict d after d[k] = x
DictSet(d, k, x) == [j \in DOMAIN d \cup {k} |-> IF j = k THEN x ELSE d[j]]

-----------------------------------------------------------------------------
(* json.loads(s) of the standard library, as parse_json_response calls it on  *)
(* line 420: the decoder's scanner over the characters of the model.  The     *)
(* literals (true, false, null, NaN, Infinity), a number's sign, fraction and *)
(* exponent and the escapes \b and \uXXXX need characters no text of the      *)
(* model holds.  A JSONDecodeError is modelled by its message without the     *)
(* position.                                                                  *)

\* the characters json.decoder.WHITESPACE skips
JsonSpace == {" ", "\n", "\t", "\r"}

Digits == {"0", "1", "2", "3", "4", "5", "6", "7", "8", "9"}

DigitVal(c) ==
    CASE c = "0" -> 0 [] c = "1" -> 1 [] c = "2" -> 2 [] c = "3" -> 3 [] c = "4" -> 4
      [] c = "5" -> 5 [] c = "6" -> 6 [] c = "7" -> 7 [] c = "8" -> 8 [] c = "9" -> 9

\* the result of one scanning function: a value and the index after it, or
\* the message of the JSONDecodeError raised
ScanOk(val, next) == [ok |-> TRUE, val |-> val, next |-> next, msg |-> ""]
ScanErr(msg) == [ok |-> FALSE, val |-> Num(0), next |-> 0, msg |-> msg]

\* WHITESPACE.match(s, i).end(): the first index from i on that holds no whitespace
RECURSIVE SkipWs(_, _)
SkipWs(s, i) == IF Ch(s, i) \in JsonSpace THEN SkipWs(s, i + 1) ELSE i

\* scanstring, strict: s[i-1] is the opening quote, acc the characters decoded so far
RECURSIVE ScanString(_, _, _)
ScanString(s, i, acc) ==
    LET c == Ch(s, i)
        e == Ch(s, i + 1)
    IN  IF c = "" THEN ScanErr("Unterminated string starting at")
        ELSE IF c = "\"" THEN ScanOk(Str(acc), i + 1)
        ELSE IF c = "\\"
             THEN IF e = "" THEN ScanErr("Unterminated string starting at")
                  ELSE IF e \in {"\"", "\\", "/"} THEN ScanString(s, i + 2, acc \o e)
                  ELSE IF e = "n" THEN ScanString(s, i + 2, acc \o "\n")
                  ELSE IF e = "r" THEN ScanString(s, i + 2, acc \o "\r")
                  ELSE IF e = "t" THEN ScanString(s, i + 2, acc \o "\t")
                  ELSE IF e = "f" THEN ScanString(s, i + 2, acc \o "\f")
                  ELSE ScanErr("Invalid \\escape")
        ELSE IF c \in {"\n", "\t", "\r", "\f"} THEN ScanErr("Invalid control character at")
        ELSE ScanString(s, i + 1, acc \o c)

\* NUMBER_RE, integer part: (0|[1-9]\d*); n is the value of the digits read so far
RECURSIVE ScanDigits(_, _, _)
ScanDigits(s, i, n) ==
    IF Ch(s, i) \in Digits THEN ScanDigits(s, i + 1, 10 * n + DigitVal(Ch(s, i)))
    ELSE ScanOk(Num(n), i)

ScanNumber(s, i) ==
    IF Ch(s, i) = "0" THEN ScanOk(Num(0), i + 1) ELSE ScanDigits(s, i, 0)

RECURSIVE ScanValue(_, _)
RECURSIVE ScanMembers(_, _, _)
RECURSIVE ScanItems(_, _, _)

\* JSONObject after the first key's opening quote at s[i-1]: the pairs loop
ScanMembers(s, i, acc) ==
    LET key == ScanString(s, i + 1, "")
        colon == SkipWs(s, key.next)
        val == ScanValue(s, SkipWs(s, colon + 1))
        sep == SkipWs(s, val.next)
        nxt == SkipWs(s, sep + 1)
    IN  IF ~key.ok THEN key
        ELSE IF Ch(s, colon) # ":" THEN ScanErr("Expecting ':' delimiter")
        ELSE IF ~val.ok THEN val
        ELSE IF Ch(s, sep) = "}" THEN ScanOk(Obj(DictSet(acc, key.val.v, val.val)), sep + 1)
        ELSE IF Ch(s, sep) # "," THEN ScanErr("Expecting ',' delimiter")
        ELSE IF Ch(s, nxt) # "\""
             THEN ScanErr("Expecting property name enclosed in double quotes")
        ELSE ScanMembers(s, nxt, DictSet(acc, key.val.v, val.val))

\* JSONObject: s[i-1] is "{"
ScanObject(s, i) ==
    LET j == SkipWs(s, i + 1)
    IN  IF Ch(s, j) = "}" THEN ScanOk(Obj(<<>>), j + 1)
        ELSE IF Ch(s, j) # "\""
             THEN ScanErr("Expecting property name enclosed in double quotes")
        ELSE ScanMembers(s, j, <<>>)

\* JSONArray after "[" and a first element that is not "]": the values loop
ScanItems(s, i, acc) ==
    LET val == ScanValue(s, i)
        sep == SkipWs(s, val.next)
    IN  IF ~val.ok THEN val
        ELSE IF Ch(s, sep) = "]" THEN ScanOk(Arr(Append(acc, val.val)), sep + 1)
        ELSE IF Ch(s, sep) # "," THEN ScanErr("Expecting ',' delimiter")
        ELSE ScanItems(s, SkipWs(s, sep + 1), Append(acc, val.val))

\* JSONArray: s[i-1] is "["
ScanArray(s, i) ==
    LET j == SkipWs(s, i + 1)
    IN  IF Ch(s, j) = "]" THEN ScanOk(Arr(<<>>), j + 1) ELSE ScanItems(s, j, <<>>)

\* scan_once
ScanValue(s, i) ==
    LET c == Ch(s, i)
    IN  IF c = "\"" THEN ScanString(s, i + 1, "")
        ELSE IF c = "{" THEN ScanObject(s, i)
        ELSE IF c = "[" THEN ScanArray(s, i)
        ELSE IF c \in Digits THEN ScanNumber(s, i)
        ELSE ScanErr("Expecting value")

\* JSONDecoder.decode: one value between optional whitespace, nothing after it
JsonLoads(s) ==
    LET r == ScanValue(s, SkipWs(s, 1))
    IN  IF ~r.ok THEN r
        ELSE IF SkipWs(s, r.next) <= Len(s) THEN ScanErr("Extra data")
        ELSE r

-----------------------------------------------------------------------------
(* clean_json_string, src/aiscript.py lines 441-457 *)

\* the characters of [\x00-\x1f\x7f-\x9f] among the characters of the model
IsControl(c) == c \in {"\n", "\t", "\r", "\f"}

\* the characters of \s among the characters of the model
IsReSpace(c) == IsSpace(c)

\* the characters of \w among the characters of the model
IsWord(c) ==
    c \in Digits \cup {"_"} \cup
          {"a", "b", "c", "d", "e", "f", "g", "h", "i", "j", "k", "l", "m",
           "n", "o", "p", "q", "r", "s", "t", "u", "v", "w", "x", "y", "z"}

\* the class ["\w]
IsQuoteOrWord(c) == c = "\"" \/ IsWord(c)

\* the end of the run of \s characters that starts at index i: the first index
\* from i on that holds none
RECURSIVE SkipReSpace(_, _)
SkipReSpace(s, i) == IF IsReSpace(Ch(s, i)) THEN SkipReSpace(s, i + 1) ELSE i

\* line 446: re.sub(r'[\x00-\x1f\x7f-\x9f]', '', json_str)
RECURSIVE RemoveControl(_)
RemoveControl(s) ==
    IF s = "" THEN ""
    ELSE (IF IsControl(Ch(s, 1)) THEN "" ELSE Ch(s, 1)) \o RemoveControl(Suffix(s, 1))

\* line 449: re.sub(r',(\s*[}\]])', r'\1', json_str), scanning from index i
RECURSIVE FixTrailingCommas(_, _)
FixTrailingCommas(s, i) ==
    LET j == SkipReSpace(s, i + 1)
    IN  IF i > Len(s) THEN ""
        ELSE IF Ch(s, i) = "," /\ Ch(s, j) \in {"}", "]"}
             THEN SubSeq(s, i + 1, j) \o FixTrailingCommas(s, j + 1)
        ELSE Ch(s, i) \o FixTrailingCommas(s, i + 1)

\* line 452: re.sub(r'(["\w])\s*\n\s*(["\w])', r'\1 \2', json_str), scanning
\* from index i
RECURSIVE JoinBrokenLines(_, _)
JoinBrokenLines(s, i) ==
    LET j == SkipReSpace(s, i + 1)
    IN  IF i > Len(s) THEN ""
        ELSE IF /\ IsQuoteOrWord(Ch(s, i))
                /\ Contains(SubSeq(s, i + 1, j - 1), "\n")
                /\ IsQuoteOrWord(Ch(s, j))
             THEN Ch(s, i) \o " " \o Ch(s, j) \o JoinBrokenLines(s, j + 1)
        ELSE Ch(s, i) \o JoinBrokenLines(s, i + 1)

\* the lookahead (?=.*".*:) after index i: a quote and, after it, a colon
\* follow on the same line
QuoteThenColonFollows(s, i) ==
    \E j \in (i + 1)..Len(s) :
        /\ Ch(s, j) = "\""
        /\ \E k \in (j + 1)..Len(s) :
               /\ Ch(s, k) = ":"
               /\ ~Contains(SubSeq(s, i + 1, k), "\n")

\* line 455: re.sub(r'(?<!\\)"(?=.*".*:)', '\\"', json_str), scanning from index i
RECURSIVE EscapeQuotes(_, _)
EscapeQuotes(s, i) ==
    IF i > Len(s) THEN ""
    ELSE IF Ch(s, i) = "\"" /\ Ch(s, i - 1) # "\\" /\ QuoteThenColonFollows(s, i)
         THEN "\\\"" \o EscapeQuotes(s, i + 1)
    ELSE Ch(s, i) \o EscapeQuotes(s, i + 1)

clean_json_string(s) ==
    EscapeQuotes(JoinBrokenLines(FixTrailingCommas(RemoveControl(s), 1), 1), 1)

-----------------------------------------------------------------------------
(* parse_json_response, src/aiscript.py lines 383-439 *)

\* The backquote of the code fences.  A TLA+ string cannot hold a backquote:
\* the model writes "~" for it, a character that, like the backquote, is in
\* none of the character classes the code tests.
Tick == "~"

\* the code fence marker of lines 392 and 395, and the one of line 390
Fence == Tick \o Tick \o Tick
FenceJson == Fence \o "json"

\* lines 387-396: strip, then drop a leading and a trailing code fence
StripFences(rt) ==
    LET stripped == Strip(rt)
        opened == IF StartsWith(stripped, FenceJson) THEN Suffix(stripped, 7)
                  ELSE IF StartsWith(stripped, Fence) THEN Suffix(stripped, 3)
                  ELSE stripped
    IN  IF EndsWith(opened, Fence) THEN Prefix(opened, Len(opened) - 3) ELSE opened

\* lines 403-412: the scan from the 0-based index i on, st = [brace_count,
\* start_idx, end_idx]
RECURSIVE BraceScan(_, _, _)
BraceScan(s, i, st) ==
    LET char == Ch(s, i + 1)
    IN  IF i >= Len(s) THEN st
        ELSE IF char = "{"
             THEN BraceScan(s, i + 1,
                            [brace_count |-> st.brace_count + 1,
                             start_idx |-> IF st.start_idx = -1 THEN i ELSE st.start_idx,
                             end_idx |-> st.end_idx])
        ELSE IF char = "}"
             THEN IF st.brace_count - 1 = 0 /\ st.start_idx # -1
                  THEN [brace_count |-> 0, start_idx |-> st.start_idx, end_idx |-> i + 1]
                  ELSE BraceScan(s, i + 1,
                                 [brace_count |-> st.brace_count - 1,
                                  start_idx |-> st.start_idx,
                                  end_idx |-> st.end_idx])
        ELSE BraceScan(s, i + 1, st)

\* line 414
SpanFound == start_idx # -1 /\ end_idx # -1

Note == "Content extraction failed - check raw_response for manual review"

\* lines 421-423: the parsed dict with the two tags
SuccessResult(parsed, m, ts) ==
    DictSet(DictSet(parsed, "processing_method", Str(m)), "processed_timestamp", Str(ts))

\* NoJsonFallback keeping the stripped text instead of the text passed in
NoJsonFallback_StrippedRaw(rt, m) ==
    [raw_response |-> Str(Strip(rt)),
     processing_method |-> Str(m),
     error |-> Str("No valid JSON structure found"),
     note |-> Str(Note)]

\* lines 425-430
NoJsonFallback(rt, m) ==
    [raw_response |-> Str(rt),
     processing_method |-> Str(m),
     error |-> Str("No valid JSON structure found"),
     note |-> Str(Note)]

\* DecodeErrorFallback keeping the stripped text instead of the text passed in
DecodeErrorFallback_StrippedRaw(rt, m, msg) ==
    [raw_response |-> Str(Strip(rt)),
     processing_method |-> Str(m),
     json_error |-> Str(msg),
     error |-> Str("JSON parsing failed"),
     note |-> Str(Note)]

\* lines 433-439
DecodeErrorFallback(rt, m, msg) ==
    [raw_response |-> Str(rt),
     processing_method |-> Str(m),
     json_error |-> Str(msg),
     error |-> Str("JSON parsing failed"),
     note |-> Str(Note)]

\* the values of time.strftime on line 422
Timestamps == {"2025-01-01 00:00:00", "2025-01-01 00:00:01"}

\* the method tags the callers pass (lines 191, 229, 300)
Methods == {"direct_upload", "chunk_1"}

\* lines 387-396
ParseStripFences ==
    /\ parse_pc = "call"
    /\ cleaned_text' = StripFences(response_text)
    /\ parse_pc' = "scan"
    /\ UNCHANGED <<response_text, method, sent, start_idx, end_idx, json_str, parse_ret,
                   parse_exc>>
    /\ UNCHANGED vars_but_parse

\* lines 399-412
ParseScan ==
    /\ parse_pc = "scan"
    /\ LET st == BraceScan(cleaned_text, 0,
                           [brace_count |-> 0, start_idx |-> -1, end_idx |-> -1])
       IN  /\ start_idx' = st.start_idx
           /\ end_idx' = st.end_idx
    /\ parse_pc' = "scanned"
    /\ UNCHANGED <<response_text, method, sent, cleaned_text, json_str, parse_ret, parse_exc>>
    /\ UNCHANGED vars_but_parse

\* lines 414-418: a span was found, cut it out and repair it
ParseRepair ==
    /\ parse_pc = "scanned"
    /\ SpanFound
    /\ json_str' = clean_json_string(SubSeq(cleaned_text, start_idx + 1, end_idx))
    /\ parse_pc' = "loads"
    /\ UNCHANGED <<response_text, method, sent, cleaned_text, start_idx, end_idx, parse_ret,
                   parse_exc>>
    /\ UNCHANGED vars_but_parse

\* lines 424-430: no span
ParseNoJson ==
    /\ parse_pc = "scanned"
    /\ ~SpanFound
    /\ parse_ret' = NoJsonFallback(response_text, method)
    /\ parse_pc' = "done"
    /\ UNCHANGED <<response_text, method, sent, cleaned_text, start_idx, end_idx, json_str,
                   parse_exc>>
    /\ UNCHANGED vars_but_parse

\* ParseLoads with a handler that does not catch JSONDecodeError
ParseLoads_Uncaught ==
    /\ parse_pc = "loads"
    /\ \E ts \in Timestamps :
         LET r == JsonLoads(json_str)
         IN  IF r.ok
             THEN IF r.val.t = "obj"
                  THEN /\ parse_ret' = SuccessResult(r.val.v, method, ts)
                       /\ parse_exc' = "none"
                       /\ parse_pc' = "done"
                  ELSE /\ parse_ret' = parse_ret
                       /\ parse_exc' = "TypeError"
                       /\ parse_pc' = "raised"
             ELSE /\ parse_ret' = parse_ret
                  /\ parse_exc' = "JSONDecodeError"
                  /\ parse_pc' = "raised"
    /\ UNCHANGED <<response_text, method, sent, cleaned_text, start_idx, end_idx, json_str>>
    /\ UNCHANGED vars_but_parse

\* lines 420-423 and the handler of lines 432-439: json.loads returns or raises
\* JSONDecodeError, which the handler turns into the fallback; storing a key
\* into a value that is no dict raises TypeError, which no handler catches
ParseLoads ==
    /\ parse_pc = "loads"
    /\ \E ts \in Timestamps :
         LET r == JsonLoads(json_str)
         IN  IF r.ok
             THEN IF r.val.t = "obj"
                  THEN /\ parse_ret' = SuccessResult(r.val.v, method, ts)
                       /\ parse_exc' = "none"
                       /\ parse_pc' = "done"
                  ELSE /\ parse_ret' = parse_ret
                       /\ parse_exc' = "TypeError"
                       /\ parse_pc' = "raised"
             ELSE /\ parse_ret' = DecodeErrorFallback(response_text, method, r.msg)
                  /\ parse_exc' = "none"
                  /\ parse_pc' = "done"
    /\ UNCHANGED <<response_text, method, sent, cleaned_text, start_idx, end_idx, json_str>>
    /\ UNCHANGED vars_but_parse

-----------------------------------------------------------------------------
(* The responses of the extraction service handed to parse_json_response      *)
(* (response.text on lines 191, 229 and 300): short arbitrary texts, and      *)
(* JSON objects written out by the service, bare or wrapped in prose and      *)
(* code fences.                                                               *)

\* the characters of the arbitrary texts
ScanAlphabet == {"{", "}", "\"", ":", ",", "a", "\n"}

\* the keys of the objects the service writes, in the order it writes them
KeyOrder == <<"a", "error">>

\* the values of those keys
MemberValues ==
    {Num(1), Str("a"), Str("{"), Str("}"), Arr(<<Num(1)>>), Obj(<<>>),
     Obj([k \in {"a"} |-> Num(1)])}

\* the objects the service writes
Objects ==
    {Obj(f) : f \in UNION {[K -> MemberValues] : K \in SUBSET {"a", "error"}}}

\* list[i] for i in order, each followed by sep except the last
RECURSIVE JoinWith(_, _)
JoinWith(list, sep) ==
    IF list = <<>> THEN ""
    ELSE IF Len(list) = 1 THEN Head(list)
    ELSE Head(list) \o sep \o JoinWith(Tail(list), sep)

\* the keys of KeyOrder from index i on that dict f holds
RECURSIVE KeysOf(_, _)
KeysOf(f, i) ==
    IF i > Len(KeyOrder) THEN <<>>
    ELSE (IF KeyOrder[i] \in DOMAIN f THEN <<KeyOrder[i]>> ELSE <<>>) \o KeysOf(f, i + 1)

\* the JSON text of value v: compact or pretty (one member per line), and,
\* with comma, a trailing comma after the last entry of every non-empty
\* object and array
RECURSIVE Render(_, _, _)
Render(v, pretty, comma) ==
    LET open == IF pretty THEN "\n " ELSE ""
        sep == IF pretty THEN ",\n " ELSE ","
        close == (IF comma THEN "," ELSE "") \o (IF pretty THEN "\n" ELSE "")
        colon == IF pretty THEN ": " ELSE ":"
        keys == KeysOf(v.v, 1)
    IN  CASE v.t = "num" -> IF v.v = 1 THEN "1" ELSE "0"
          [] v.t = "str" -> "\"" \o v.v \o "\""
          [] v.t = "arr" ->
                IF v.v = <<>> THEN "[]"
                ELSE "[" \o JoinWith([i \in DOMAIN v.v |-> Render(v.v[i], pretty, comma)], ",")
                         \o (IF comma THEN "," ELSE "") \o "]"
          [] v.t = "obj" ->
                IF keys = <<>> THEN "{}"
                ELSE "{" \o open
                         \o JoinWith([i \in DOMAIN keys |->
                                         "\"" \o keys[i] \o "\"" \o colon
                                              \o Render(v.v[keys[i]], pretty, comma)], sep)
                         \o close \o "}"

\* explanatory prose before and after the object
Leads == {"", "a ", "} "}
Tails == {"", " a"}

\* code fences around the object
FenceOpens == {"", FenceJson \o "\n", Fence \o "\n"}
FenceCloses == {"", "\n" \o Fence}

\* what the service wrote: an object and its wrapping, or an arbitrary text
Wrapped(o, pretty, comma, lead, open, close, tail) ==
    [kind |-> "object", obj |-> o, pretty |-> pretty, comma |-> comma,
     lead |-> lead, open |-> open, close |-> close, tail |-> tail]
Raw == Wrapped(Obj(<<>>), FALSE, FALSE, "", "", "", "")

\* the text of a wrapped object
WrappedText(w) ==
    w.lead \o w.open \o Render(w.obj, w.pretty, w.comma) \o w.close \o w.tail

\* lines 383: the call
ParseInit ==
    /\ \/ /\ sent \in {Wrapped(o, p, c, l, fo, fc, t) :
                         o \in Objects, p \in BOOLEAN, c \in BOOLEAN, l \in Leads,
                         fo \in FenceOpens, fc \in FenceCloses, t \in Tails}
          /\ response_text = WrappedText(sent)
       \/ /\ sent = [Raw EXCEPT !.kind = "text"]
          /\ response_text \in Strings(ScanAlphabet, MaxRespLen)
    /\ method \in Methods
    /\ cleaned_text = ""
    /\ start_idx = -1
    /\ end_idx = -1
    /\ json_str = ""
    /\ parse_ret = <<>>
    /\ parse_exc = "none"
    /\ parse_pc = "call"
    /\ SplitIdle
    /\ MergeIdle
    /\ MultiIdle
    /\ OuterIdle

ParseNext == ParseStripFences \/ ParseScan \/ ParseRepair \/ ParseNoJson \/ ParseLoads

SpecParse == ParseInit /\ [][ParseNext]_vars

-----------------------------------------------------------------------------
(* merge_chunk_results, src/aiscript.py lines 313-381.  A chunk result is a   *)
(* dict of JSON values, as parse_json_response returns it; merged is a dict   *)
(* of JSON values with the nesting of lines 315-338.                          *)

\* Python's None, what dict.get returns for a missing key
None == [t |-> "none", v |-> 0]

\* d.get(k)
Get(d, k) == IF k \in DOMAIN d THEN d[k] ELSE None

\* d.get(k, default)
GetOr(d, k, default) == IF k \in DOMAIN d THEN d[k] ELSE default

\* bool(x) of a JSON value or None
Truthy(x) ==
    CASE x.t = "num" -> x.v # 0
      [] x.t = "str" -> x.v # ""
      [] x.t = "arr" -> x.v # <<>>
      [] x.t = "obj" -> DOMAIN x.v # {}
      [] OTHER -> FALSE

\* the elements of a list
Range(list) == {list[i] : i \in DOMAIN list}

\* line 379, list(dict.fromkeys(list)): the first occurrences, in order
RECURSIVE DictFromKeys(_, _)
DictFromKeys(list, seen) ==
    IF list = <<>> THEN seen
    ELSE DictFromKeys(Tail(list),
                      IF Head(list) \in Range(seen) THEN seen ELSE Append(seen, Head(list)))

\* line 361: the fields merged by plain extension, in the order of the loop
ArrayFields ==
    <<"detailed_sections", "rules_and_provisions", "penalties_and_consequences",
      "action_items", "definitions">>

\* lines 326-331: the keys of merged["important_entities"], in insertion order
EntityTypes == <<"people", "organizations", "locations", "amounts", "dates", "references">>

\* InitialMerged counting the entries without an error field
InitialMerged_CountsSuccesses(results) ==
    [document_info |-> Obj(<<>>),
     main_content |-> Obj([purpose |-> Str(""), summary |-> Str(""), key_points |-> Arr(<<>>)]),
     detailed_sections |-> Arr(<<>>),
     rules_and_provisions |-> Arr(<<>>),
     penalties_and_consequences |-> Arr(<<>>),
     important_entities |-> Obj([people |-> Arr(<<>>), organizations |-> Arr(<<>>),
                                 locations |-> Arr(<<>>), amounts |-> Arr(<<>>),
                                 dates |-> Arr(<<>>), references |-> Arr(<<>>)]),
     action_items |-> Arr(<<>>),
     definitions |-> Arr(<<>>),
     full_text_content |-> Str(""),
     processing_method |-> Str("multi_chunk"),
     total_chunks |-> Num(Cardinality({i \in DOMAIN results : "error" \notin DOMAIN results[i]}))]

\* lines 315-338: merged as constructed
InitialMerged(results) ==
    [document_info |-> Obj(<<>>),
     main_content |-> Obj([purpose |-> Str(""), summary |-> Str(""), key_points |-> Arr(<<>>)]),
     detailed_sections |-> Arr(<<>>),
     rules_and_provisions |-> Arr(<<>>),
     penalties_and_consequences |-> Arr(<<>>),
     important_entities |-> Obj([people |-> Arr(<<>>), organizations |-> Arr(<<>>),
                                 locations |-> Arr(<<>>), amounts |-> Arr(<<>>),
                                 dates |-> Arr(<<>>), references |-> Arr(<<>>)]),
     action_items |-> Arr(<<>>),
     definitions |-> Arr(<<>>),
     full_text_content |-> Str(""),
     processing_method |-> Str("multi_chunk"),
     total_chunks |-> Num(Len(results))]

\* merged after merged[outer][inner] = x
SetInner(m, outer, inner, x) == DictSet(m, outer, Obj(DictSet(m[outer].v, inner, x)))

\* lines 346-347
MergeDocumentInfo(m, chunk_result) ==
    IF ~Truthy(m["document_info"]) /\ Truthy(Get(chunk_result, "document_info"))
    THEN DictSet(m, "document_info", chunk_result["document_info"])
    ELSE m

\* MergePurpose letting every non-empty purpose overwrite the earlier one
MergePurpose_LastWins(m, main_content) ==
    IF Truthy(Get(main_content, "purpose"))
    THEN SetInner(m, "main_content", "purpose", main_content["purpose"])
    ELSE m

\* lines 351-352
MergePurpose(m, main_content) ==
    IF Truthy(Get(main_content, "purpose")) /\ ~Truthy(m["main_content"].v["purpose"])
    THEN SetInner(m, "main_content", "purpose", main_content["purpose"])
    ELSE m

\* lines 354-355
MergeSummary(m, main_content) ==
    IF Truthy(Get(main_content, "summary"))
    THEN SetInner(m, "main_content", "summary",
                  Str(m["main_content"].v["summary"].v \o " " \o main_content["summary"].v))
    ELSE m

\* lines 357-358
MergeKeyPoints(m, main_content) ==
    IF Truthy(Get(main_content, "key_points"))
    THEN SetInner(m, "main_content", "key_points",
                  Arr(m["main_content"].v["key_points"].v \o main_content["key_points"].v))
    ELSE m

\* MergeArrays dropping the entries the field already holds, as for key_points
RECURSIVE MergeArrays_Dedups(_, _, _)
MergeArrays_Dedups(m, chunk_result, i) ==
    IF i > Len(ArrayFields) THEN m
    ELSE LET field == ArrayFields[i]
         IN  MergeArrays_Dedups(
                 IF Truthy(Get(chunk_result, field))
                 THEN DictSet(m, field,
                              Arr(DictFromKeys(m[field].v \o chunk_result[field].v, <<>>)))
                 ELSE m,
                 chunk_result, i + 1)

\* lines 361-363, from the i-th field of the loop on
RECURSIVE MergeArrays(_, _, _)
MergeArrays(m, chunk_result, i) ==
    IF i > Len(ArrayFields) THEN m
    ELSE LET field == ArrayFields[i]
         IN  MergeArrays(IF Truthy(Get(chunk_result, field))
                         THEN DictSet(m, field, Arr(m[field].v \o chunk_result[field].v))
                         ELSE m,
                         chunk_result, i + 1)

\* lines 367-369, from the i-th entity type of the loop on
RECURSIVE MergeEntities(_, _, _)
MergeEntities(m, entities, i) ==
    IF i > Len(EntityTypes) THEN m
    ELSE LET entity_type == EntityTypes[i]
         IN  MergeEntities(IF Truthy(Get(entities, entity_type))
                           THEN SetInner(m, "important_entities", entity_type,
                                         Arr(m["important_entities"].v[entity_type].v
                                                 \o entities[entity_type].v))
                           ELSE m,
                           entities, i + 1)

\* lines 372-373
MergeFullText(m, chunk_result) ==
    IF Truthy(Get(chunk_result, "full_text_content"))
    THEN DictSet(m, "full_text_content",
                 Str(m["full_text_content"].v \o "\n\n" \o chunk_result["full_text_content"].v))
    ELSE m

\* MergeOne without the test of line 342
MergeOne_KeepsErrors(m, chunk_result) ==
    LET main_content == GetOr(chunk_result, "main_content", Obj(<<>>)).v
        entities == GetOr(chunk_result, "important_entities", Obj(<<>>)).v
        m1 == MergeDocumentInfo(m, chunk_result)
        m2 == MergePurpose(m1, main_content)
        m3 == MergeSummary(m2, main_content)
        m4 == MergeKeyPoints(m3, main_content)
        m5 == MergeArrays(m4, chunk_result, 1)
        m6 == MergeEntities(m5, entities, 1)
    IN  MergeFullText(m6, chunk_result)

\* lines 342-373: the body of `for chunk_result in chunk_results`
MergeOne(m, chunk_result) ==
    IF "error" \in DOMAIN chunk_result THEN m
    ELSE LET main_content == GetOr(chunk_result, "main_content", Obj(<<>>)).v
             entities == GetOr(chunk_result, "important_entities", Obj(<<>>)).v
             m1 == MergeDocumentInfo(m, chunk_result)
             m2 == MergePurpose(m1, main_content)
             m3 == MergeSummary(m2, main_content)
             m4 == MergeKeyPoints(m3, main_content)
             m5 == MergeArrays(m4, chunk_result, 1)
             m6 == MergeEntities(m5, entities, 1)
         IN  MergeFullText(m6, chunk_result)

\* lines 341-373: the loop
RECURSIVE MergeLoop(_, _)
MergeLoop(m, results) ==
    IF results = <<>> THEN m ELSE MergeLoop(MergeOne(m, Head(results)), Tail(results))

\* ListOfSet leaving the list as it is
ListOfSet_KeepsDuplicates(list) == {list}

\* line 377, list(set(list)): the elements once each, in the order the set
\* iterates, which for str elements depends on the hash seed of the run
ListOfSet(list) ==
    LET S == Range(list)
    IN  {o \in [1..Cardinality(S) -> S] : \A x \in S : \E i \in 1..Cardinality(S) : o[i] = x}

\* lines 376-377, from the i-th entity type on: every outcome of the clean-up
RECURSIVE CleanEntities(_, _)
CleanEntities(m, i) ==
    IF i > Len(EntityTypes) THEN {m}
    ELSE UNION {CleanEntities(SetInner(m, "important_entities", EntityTypes[i], Arr(o)), i + 1) :
                   o \in ListOfSet(m["important_entities"].v[EntityTypes[i]].v)}

\* CleanKeyPoints keeping the duplicates
CleanKeyPoints_KeepsDuplicates(m) == m

\* line 379
CleanKeyPoints(m) ==
    SetInner(m, "main_content", "key_points",
             Arr(DictFromKeys(m["main_content"].v["key_points"].v, <<>>)))

\* the values merge_chunk_results(results) can return
merge_chunk_results(results) ==
    {CleanKeyPoints(m) : m \in CleanEntities(MergeLoop(InitialMerged(results), results), 1)}

\* lines 315-338
MergeBegin ==
    /\ merge_pc = "call"
    /\ merged' = InitialMerged(chunk_results)
    /\ merge_rest' = chunk_results
    /\ merge_pc' = "loop"
    /\ UNCHANGED <<chunk_results, merge_ret>>
    /\ UNCHANGED vars_but_merge

\* lines 341-373: one iteration of the loop
MergeChunk ==
    /\ merge_pc = "loop"
    /\ merge_rest # <<>>
    /\ merged' = MergeOne(merged, Head(merge_rest))
    /\ merge_rest' = Tail(merge_rest)
    /\ UNCHANGED <<chunk_results, merge_ret, merge_pc>>
    /\ UNCHANGED vars_but_merge

\* lines 375-381: the loop is over
MergeReturn ==
    /\ merge_pc = "loop"
    /\ merge_rest = <<>>
    /\ \E m \in CleanEntities(merged, 1) :
         /\ merged' = CleanKeyPoints(m)
         /\ merge_ret' = CleanKeyPoints(m)
    /\ merge_pc' = "done"
    /\ UNCHANGED <<chunk_results, merge_rest>>
    /\ UNCHANGED vars_but_merge

MergeNext == MergeBegin \/ MergeChunk \/ MergeReturn

-----------------------------------------------------------------------------
(* The chunk results handed to merge_chunk_results: results of the canonical  *)
(* schema as parse_json_response returns them (each field present, empty or   *)
(* missing), error markers of line 308 and results that carry an error field. *)
(* merge_chunk_results handles each field by its own statement; the lists of  *)
(* one call vary the fields of one group and hold error entries among them.   *)

\* dict d with d[k] = x, or d itself when x is None (the key is missing)
WithKey(d, k, x) == IF x.t = "none" THEN d ELSE DictSet(d, k, x)

\* the list of the strings prefix + item
StrList(prefix, items) == Arr([i \in DOMAIN items |-> Str(prefix \o items[i])])

\* a parsed object as parse_json_response returns it (lines 421-423)
Tagged(parsed) == SuccessResult(parsed, "chunk_1", "2025-01-01 00:00:00")

\* line 308: the marker of a chunk whose call raised
ErrorMarker(e, i) == [error |-> Str(e), chunk |-> Num(i)]

\* results varying in document_info and main_content.purpose
DocInfos == {Obj(<<>>), Obj([title |-> Str("D1")]), Obj([title |-> Str("D2")])}
Purposes == {None, Str("P1"), Str("P2")}
HeadChunk(doc, purpose) ==
    Tagged(WithKey([document_info |-> doc], "main_content",
                   IF purpose.t = "none" THEN None ELSE Obj([purpose |-> purpose])))
HeadChunks == {HeadChunk(d, p) : d \in DocInfos, p \in Purposes}

\* results varying in main_content.summary and full_text_content
Summaries == {Str(""), Str("S1"), Str("S2")}
FullTexts == {None, Str("T1"), Str("T2")}
TextChunk(summary, full_text) ==
    Tagged(WithKey([main_content |-> Obj([summary |-> summary])],
                   "full_text_content", full_text))
TextChunks == {TextChunk(s, f) : s \in Summaries, f \in FullTexts}

\* results varying in main_content.key_points and the five array fields
KeyPointLists == {<<"a", "b">>, <<"b", "c">>, <<"b", "b">>}
ItemLists == {<<>>, <<"1", "2">>, <<"1", "1">>}
ListChunk(key_points, items) ==
    Tagged(WithKey([main_content |-> Obj([key_points |-> StrList("", key_points)]),
                    detailed_sections |-> StrList("section", items),
                    rules_and_provisions |-> StrList("rule", items),
                    penalties_and_consequences |-> StrList("penalty", items),
                    definitions |-> StrList("term", items)],
                   "action_items", IF items = <<>> THEN None ELSE StrList("todo", items)))
ListChunks == {ListChunk(k, l) : k \in KeyPointLists, l \in ItemLists}

\* results varying in important_entities: people, and with extra a date and
\* a category that is none of the six
PeopleLists == {<<>>, <<"Ann", "Bob">>, <<"Bob", "Cy">>, <<"Ann", "Ann">>}
EntityChunk(people, extra) ==
    LET e1 == WithKey(<<>>, "people", IF people = <<>> THEN None ELSE StrList("", people))
        e2 == IF extra
              THEN DictSet(DictSet(e1, "dates", Arr(<<Str("2024")>>)), "misc", Arr(<<Str("Zed")>>))
              ELSE e1
    IN  Tagged([important_entities |-> Obj(e2)])
EntityChunks == {EntityChunk(p, x) : p \in PeopleLists, x \in BOOLEAN}

\* a result with every field of the canonical schema filled, without duplicates
FullChunk(x, y) ==
    Tagged([document_info |-> Obj([title |-> Str("D" \o x)]),
            main_content |-> Obj([purpose |-> Str("P" \o x), summary |-> Str("S" \o x),
                                  key_points |-> StrList("k", <<x, y>>)]),
            detailed_sections |-> StrList("section", <<x, y>>),
            rules_and_provisions |-> StrList("rule", <<x>>),
            penalties_and_consequences |-> StrList("penalty", <<y>>),
            important_entities |-> Obj([people |-> StrList("", <<"Ann", "Bob">>),
                                        organizations |-> StrList("", <<"Acme">>),
                                        locations |-> StrList("", <<"Pune">>),
                                        amounts |-> StrList("", <<"100">>),
                                        dates |-> StrList("", <<"2024">>),
                                        references |-> StrList("ref", <<x, y>>)]),
            action_items |-> StrList("todo", <<x>>),
            definitions |-> StrList("term", <<y, x>>),
            full_text_content |-> Str("T" \o x)])

\* a result with every field present and empty
EmptyChunk == Tagged(InitialMerged(<<>>))

\* the result of a response "{}": no field of the schema
BareChunk == Tagged(<<>>)

WholeChunks == {FullChunk("1", "2"), FullChunk("2", "3"), EmptyChunk, BareChunk}

\* entries with an error field: a marker of line 308, a fallback of lines
\* 425-430 and a decoded object that itself holds an error field
ErrorEntries ==
    {ErrorMarker("quota exceeded", 2), NoJsonFallback("a", "chunk_1"),
     DictSet(FullChunk("3", "1"), "error", Str("unreadable page"))}

Families == {HeadChunks, TextChunks, ListChunks, EntityChunks, WholeChunks}

\* the lists over S of at most n entries
Lists(S, n) == UNION {[1..k -> S] : k \in 0..n}

\* line 313: the call
MergeInit ==
    /\ \E F \in Families : chunk_results \in Lists(F \cup ErrorEntries, MaxChunks)
    /\ merged = <<>>
    /\ merge_rest = <<>>
    /\ merge_ret = <<>>
    /\ merge_pc = "call"
    /\ SplitIdle
    /\ ParseIdle
    /\ MultiIdle
    /\ OuterIdle

SpecMerge == MergeInit /\ [][MergeNext]_vars

-----------------------------------------------------------------------------
(* process_multi_chunk_document, src/aiscript.py lines 274-311 *)

\* parse_json_response(response_text, method) as a value: the dict returned
\* (lines 387-439) with ts the time of line 422, or the exception that leaves
\* the function
parse_json_response(rt, m, ts) ==
    LET ct == StripFences(rt)
        st == BraceScan(ct, 0, [brace_count |-> 0, start_idx |-> -1, end_idx |-> -1])
        r == JsonLoads(clean_json_string(SubSeq(ct, st.start_idx + 1, st.end_idx)))
    IN  IF st.start_idx # -1 /\ st.end_idx # -1
        THEN IF r.ok
             THEN IF r.val.t = "obj"
                  THEN [exc |-> "none", ret |-> SuccessResult(r.val.v, m, ts)]
                  ELSE [exc |-> "TypeError", ret |-> <<>>]
             ELSE [exc |-> "none", ret |-> DecodeErrorFallback(rt, m, r.msg)]
        ELSE [exc |-> "none", ret |-> NoJsonFallback(rt, m)]

\* str(n) of a natural number
RECURSIVE IntStr(_)
IntStr(n) ==
    LET d == <<"0", "1", "2", "3", "4", "5", "6", "7", "8", "9">>
    IN  IF n < 10 THEN d[n + 1] ELSE IntStr(n \div 10) \o d[(n % 10) + 1]

\* ChunkMethod counting the chunks from zero
ChunkMethod_FromZero(i) == "chunk_" \o IntStr(i - 1)

\* line 300: f"chunk_{i}"
ChunkMethod(i) == "chunk_" \o IntStr(i)

\* lines 283-292: what chunk_prompt states besides the fixed prompt text
ChunkPrompt(i, total, chunk) == [part |-> i, of |-> total, chunk |-> chunk]

\* what one generate_content call does: it raises (str(e) = msg), or it
\* returns a response with the text response.text
Raised(msg) == [raised |-> TRUE, msg |-> msg, text |-> ""]
Returned(t) == [raised |-> FALSE, msg |-> "", text |-> t]

\* the outcomes of the calls: two failures of the service, and responses
\* that decode, that do not decode and that hold no JSON
Outcomes ==
    {Raised("quota exceeded"), Raised("deadline exceeded"),
     Returned("{}"), Returned("{\"a\":1}"), Returned("a")}

\* the texts of the chunks
ChunkTexts == {"a", "b"}

\* OnGenerateError leaving no entry for the chunk
OnGenerateError_Skips(results, e, i) == results

\* lines 306-308: the handler of the chunk's try block
OnGenerateError(results, e, i) == Append(results, ErrorMarker(e, i))

\* lines 276-278
MultiBegin ==
    /\ multi_pc = "call"
    /\ chunk_results' = <<>>
    /\ multi_i' = 1
    /\ multi_pc' = "loop"
    /\ UNCHANGED <<multi_chunks, generate_calls, sleeps, multi_ret>>
    /\ UNCHANGED <<merged, merge_rest, merge_ret, merge_pc>>
    /\ UNCHANGED <<split_vars, parse_vars, outer_vars>>

\* lines 280-308: one iteration of the loop: the generate_content call, then
\* either the parsed result and the pause of line 304, or the handler
MultiChunk ==
    /\ multi_pc = "loop"
    /\ multi_i <= Len(multi_chunks)
    /\ \E outcome \in Outcomes, ts \in Timestamps :
         LET parsed == parse_json_response(outcome.text, ChunkMethod(multi_i), ts)
         IN  /\ generate_calls' =
                    Append(generate_calls,
                           [prompt |-> ChunkPrompt(multi_i, Len(multi_chunks),
                                                   multi_chunks[multi_i]),
                            outcome |-> outcome])
             /\ IF outcome.raised
                THEN /\ chunk_results' = OnGenerateError(chunk_results, outcome.msg, multi_i)
                     /\ sleeps' = sleeps
                ELSE IF parsed.exc # "none"
                THEN /\ chunk_results' = OnGenerateError(chunk_results, parsed.exc, multi_i)
                     /\ sleeps' = sleeps
                ELSE /\ chunk_results' = Append(chunk_results, parsed.ret)
                     /\ sleeps' = Append(sleeps, multi_i)
    /\ multi_i' = multi_i + 1
    /\ UNCHANGED <<multi_chunks, multi_ret, multi_pc>>
    /\ UNCHANGED <<merged, merge_rest, merge_ret, merge_pc>>
    /\ UNCHANGED <<split_vars, parse_vars, outer_vars>>

\* line 311: the loop is over, merge_chunk_results is called with chunk_results
MultiMerge ==
    /\ multi_pc = "loop"
    /\ multi_i > Len(multi_chunks)
    /\ merge_pc' = "call"
    /\ multi_pc' = "merge"
    /\ UNCHANGED <<multi_chunks, multi_i, generate_calls, sleeps, multi_ret>>
    /\ UNCHANGED <<chunk_results, merged, merge_rest, merge_ret>>
    /\ UNCHANGED <<split_vars, parse_vars, outer_vars>>

\* line 311: merge_chunk_results has returned, its result is returned
MultiReturn ==
    /\ multi_pc = "merge"
    /\ merge_pc = "done"
    /\ multi_ret' = merge_ret
    /\ multi_pc' = "done"
    /\ UNCHANGED <<multi_chunks, multi_i, generate_calls, sleeps>>
    /\ UNCHANGED merge_vars
    /\ UNCHANGED <<split_vars, parse_vars, outer_vars>>

\* line 214: the call, with the two or more chunks smart_text_split returned
MultiInit ==
    /\ multi_chunks \in UNION {[1..n -> ChunkTexts] : n \in 2..MaxChunks}
    /\ multi_i = 0
    /\ generate_calls = <<>>
    /\ sleeps = <<>>
    /\ multi_ret = <<>>
    /\ multi_pc = "call"
    /\ MergeIdle
    /\ SplitIdle
    /\ ParseIdle
    /\ OuterIdle

MultiNext == MultiBegin \/ MultiChunk \/ MultiMerge \/ MergeNext \/ MultiReturn

SpecMulti == MultiInit /\ [][MultiNext]_vars

-----------------------------------------------------------------------------
(* upload_pdf_to_gemini, src/aiscript.py lines 50-71 *)

\* the states a file of the service can be in (state.name)
FileStates == {"STATE_UNSPECIFIED", "PROCESSING", "ACTIVE", "FAILED"}

\* the names the service gives to uploaded files
FileNames == {"files/1", "files/2"}

\* the paths of the documents
PdfPaths == {"a.pdf", "b.pdf"}

\* failures of a call of the service (str(e))
ServiceErrors == {"quota exceeded", "deadline exceeded"}

\* a file as the service reports it
File(name, state) == [name |-> name, state |-> state]

\* the states the service may report after n pauses of the polling loop: it
\* reports PROCESSING at most MaxPolls times
Reportable(n) == IF n < MaxPolls THEN FileStates ELSE FileStates \ {"PROCESSING"}

\* IsFailed letting a failed file through
IsFailed_Never(f) == FALSE

\* line 64: the test of the terminal failure state
IsFailed(f) == f.state = "FAILED"

\* line 59: the test of the polling loop
StillProcessing(f) == f.state = "PROCESSING"

\* lines 53-56: genai.upload_file returns a file or raises
UploadFile ==
    /\ upload_pc = "call"
    /\ \/ \E name \in FileNames, state \in Reportable(upload_sleeps) :
              /\ uploaded_file' = File(name, state)
              /\ upload_pc' = "poll"
              /\ UNCHANGED upload_caught
       \/ \E e \in ServiceErrors :
              /\ upload_caught' = e
              /\ upload_pc' = "raised"
              /\ UNCHANGED uploaded_file
    /\ UNCHANGED <<upload_path, upload_sleeps, upload_ret>>
    /\ UNCHANGED vars_but_upload

\* lines 59-61: the file is still PROCESSING, the loop pauses
UploadSleep ==
    /\ upload_pc = "poll"
    /\ StillProcessing(uploaded_file)
    /\ upload_sleeps' = upload_sleeps + 1
    /\ upload_pc' = "slept"
    /\ UNCHANGED <<upload_path, uploaded_file, upload_caught, upload_ret>>
    /\ UNCHANGED vars_but_upload

\* line 62: genai.get_file reports the file again, or raises
UploadGetFile ==
    /\ upload_pc = "slept"
    /\ \/ \E state \in Reportable(upload_sleeps) :
              /\ uploaded_file' = File(uploaded_file.name, state)
              /\ upload_pc' = "poll"
              /\ UNCHANGED upload_caught
       \/ \E e \in ServiceErrors :
              /\ upload_caught' = e
              /\ upload_pc' = "raised"
              /\ UNCHANGED uploaded_file
    /\ UNCHANGED <<upload_path, upload_sleeps, upload_ret>>
    /\ UNCHANGED vars_but_upload

\* lines 64-67: the loop is over; a FAILED file raises ValueError, any other
\* file is returned
UploadCheck ==
    /\ upload_pc = "poll"
    /\ ~StillProcessing(uploaded_file)
    /\ IF IsFailed(uploaded_file)
       THEN /\ upload_caught' = "File processing failed: FAILED"
            /\ upload_pc' = "raised"
            /\ UNCHANGED upload_ret
       ELSE /\ upload_ret' = uploaded_file
            /\ upload_pc' = "done"
            /\ UNCHANGED upload_caught
    /\ UNCHANGED <<upload_path, uploaded_file, upload_sleeps>>
    /\ UNCHANGED vars_but_upload

\* lines 69-71: the handler of the try block returns None
UploadExcept ==
    /\ upload_pc = "raised"
    /\ upload_ret' = None
    /\ upload_pc' = "done"
    /\ UNCHANGED <<upload_path, uploaded_file, upload_sleeps, upload_caught>>
    /\ UNCHANGED vars_but_upload

UploadNext == UploadFile \/ UploadSleep \/ UploadGetFile \/ UploadCheck \/ UploadExcept

\* line 50: the call
UploadInit ==
    /\ upload_path \in PdfPaths
    /\ uploaded_file = <<>>
    /\ upload_sleeps = 0
    /\ upload_caught = "none"
    /\ upload_ret = <<>>
    /\ upload_pc = "call"
    /\ PdfIdle
    /\ DirIdle
    /\ SplitIdle
    /\ ParseIdle
    /\ MergeIdle
    /\ MultiIdle

\* every step of the function is taken in the end: the interpreter does not
\* stop, the pause of line 61 ends and every call of the service returns or
\* raises
SpecUpload == UploadInit /\ [][UploadNext]_vars /\ WF_vars(UploadNext)

-----------------------------------------------------------------------------
(* process_pdf_with_gemini and process_text_with_gemini, src/aiscript.py     *)
(* lines 154-233                                                             *)

\* s repeated n times
RECURSIVE Rep(_, _)
Rep(s, n) == IF n = 0 THEN "" ELSE s \o Rep(s, n - 1)

\* what extract_text_from_pdf (lines 36-48) returns for the documents: "" for
\* a document without text or one that cannot be read, a text of max_chars
\* characters, a longer text of one paragraph, and longer texts of two and of
\* three paragraphs
PdfTexts ==
    {"", Rep("a", TextMaxChars), Rep("a", TextMaxChars + 1),
     Rep("a", TextMaxChars) \o "\n\n" \o "b",
     Rep("a", TextMaxChars) \o "\n\n" \o Rep("b", TextMaxChars) \o "\n\n" \o "c"}

\* line 217: the marker appended to a truncated text
TruncationMarker == "\n\n[TEXT TRUNCATED - DOCUMENT CONTINUES]"

\* lines 196, 206 and 233: the result of a document that failed
ErrorResult(e, path) == [error |-> Str(e), file |-> Str(path)]

\* lines 166-168: the prompt of the direct-upload call holds the file
FilePrompt(f) == [file |-> f.name]

\* line 222: the prompt of the single call of the text path holds the text
TextPrompt(t) == [content |-> t]

\* Cleanup making no delete_file call
Cleanup_Skipped(calls, f, raised) == calls

\* lines 174-177 and 184-187: genai.delete_file(uploaded_file.name), whose
\* exception the bare except discards
Cleanup(calls, f, raised) == Append(calls, [name |-> f.name, raised |-> raised])

\* AfterGenerate taking the fallback whatever the call did
AfterGenerate_AlwaysFallback(outcome) == "fallback_cleanup"

\* lines 165-181: a call that raised enters the handler, a call that returned
\* a response is followed by the cleanup of line 174
AfterGenerate(outcome) == IF outcome.raised THEN "fallback_cleanup" ELSE "cleanup"

\* TextRoute sending every text to the single call
TextRoute_NeverSplits(t) == IF t = "" THEN "empty" ELSE "single"

\* lines 205 and 210: the route of the text path
TextRoute(t) ==
    IF t = "" THEN "empty"
    ELSE IF Len(t) > TextMaxChars THEN "split"
    ELSE "single"

pdf_locals == <<pdf_path, pdf_response, pdf_text, delete_calls, text_runs, pdf_ret>>

\* line 162: upload_pdf_to_gemini is called
PdfUpload ==
    /\ pdf_pc = "call"
    /\ upload_path' = pdf_path
    /\ upload_pc' = "call"
    /\ pdf_pc' = "upload"
    /\ UNCHANGED <<uploaded_file, upload_sleeps, upload_caught, upload_ret>>
    /\ UNCHANGED pdf_locals
    /\ UNCHANGED <<core_vars, dir_vars>>

\* line 164: upload_pdf_to_gemini has returned; with a handle the direct call
\* follows, with None process_text_with_gemini is called (line 192)
PdfUploaded ==
    /\ pdf_pc = "upload"
    /\ upload_pc = "done"
    /\ IF upload_ret # None
       THEN /\ pdf_pc' = "generate"
            /\ UNCHANGED text_runs
       ELSE /\ pdf_pc' = "text"
            /\ text_runs' = text_runs + 1
    /\ UNCHANGED <<pdf_path, pdf_response, pdf_text, delete_calls, pdf_ret>>
    /\ UNCHANGED <<upload_vars, core_vars, dir_vars>>

\* lines 166-171: generate_content with the file and the prompt, and the text
\* of the response
PdfGenerate ==
    /\ pdf_pc = "generate"
    /\ \E outcome \in Outcomes :
         /\ generate_calls' = Append(generate_calls,
                                     [prompt |-> FilePrompt(upload_ret), outcome |-> outcome])
         /\ pdf_response' = outcome.text
         /\ pdf_pc' = AfterGenerate(outcome)
    /\ UNCHANGED <<pdf_path, pdf_text, delete_calls, text_runs, pdf_ret>>
    /\ UNCHANGED <<multi_chunks, multi_i, sleeps, multi_ret, multi_pc>>
    /\ UNCHANGED <<split_vars, parse_vars, merge_vars, upload_vars, dir_vars>>

\* lines 174-177: the cleanup after a response
PdfCleanup ==
    /\ pdf_pc = "cleanup"
    /\ \E raised \in BOOLEAN : delete_calls' = Cleanup(delete_calls, upload_ret, raised)
    /\ pdf_pc' = "parse"
    /\ UNCHANGED <<pdf_path, pdf_response, pdf_text, text_runs, pdf_ret>>
    /\ UNCHANGED <<upload_vars, core_vars, dir_vars>>

\* line 179: the response is parsed and the result returned; an exception of
\* parse_json_response would enter the handler of line 181
PdfParse ==
    /\ pdf_pc = "parse"
    /\ \E ts \in Timestamps :
         LET parsed == parse_json_response(pdf_response, "direct_upload", ts)
         IN  IF parsed.exc = "none"
             THEN /\ pdf_ret' = parsed.ret
                  /\ pdf_pc' = "done"
             ELSE /\ pdf_ret' = pdf_ret
                  /\ pdf_pc' = "fallback_cleanup"
    /\ UNCHANGED <<pdf_path, pdf_response, pdf_text, delete_calls, text_runs>>
    /\ UNCHANGED <<upload_vars, core_vars, dir_vars>>

\* lines 181-189: the handler of the direct call: the cleanup, then
\* process_text_with_gemini is called
PdfFallback ==
    /\ pdf_pc = "fallback_cleanup"
    /\ \E raised \in BOOLEAN : delete_calls' = Cleanup(delete_calls, upload_ret, raised)
    /\ text_runs' = text_runs + 1
    /\ pdf_pc' = "text"
    /\ UNCHANGED <<pdf_path, pdf_response, pdf_text, pdf_ret>>
    /\ UNCHANGED <<upload_vars, core_vars, dir_vars>>

\* lines 203-212: the text is extracted; without text the error result is
\* returned, a text longer than max_chars is handed to smart_text_split
TextExtract ==
    /\ pdf_pc = "text"
    /\ \E t \in PdfTexts :
         /\ pdf_text' = t
         /\ CASE TextRoute(t) = "empty" ->
                   /\ pdf_ret' = ErrorResult("Could not extract text from PDF", pdf_path)
                   /\ pdf_pc' = "done"
                   /\ UNCHANGED split_vars
              [] TextRoute(t) = "split" ->
                   /\ text' = t
                   /\ max_chars' = TextMaxChars
                   /\ split_pc' = "call"
                   /\ pdf_pc' = "split"
                   /\ UNCHANGED <<paragraphs, chunks, current_chunk, split_ret, pdf_ret>>
              [] OTHER ->
                   /\ pdf_pc' = "single"
                   /\ UNCHANGED <<split_vars, pdf_ret>>
    /\ UNCHANGED <<pdf_path, pdf_response, delete_calls, text_runs>>
    /\ UNCHANGED <<parse_vars, merge_vars, multi_vars, upload_vars, dir_vars>>

\* lines 213-217: smart_text_split has returned; more than one chunk goes to
\* process_multi_chunk_document, otherwise the text is truncated
TextSplit ==
    /\ pdf_pc = "split"
    /\ split_pc = "done"
    /\ IF Len(split_ret) > 1
       THEN /\ multi_chunks' = split_ret
            /\ multi_pc' = "call"
            /\ pdf_pc' = "multi"
            /\ UNCHANGED pdf_text
       ELSE /\ pdf_text' = Prefix(pdf_text, TextMaxChars) \o TruncationMarker
            /\ pdf_pc' = "single"
            /\ UNCHANGED <<multi_chunks, multi_pc>>
    /\ UNCHANGED <<pdf_path, pdf_response, delete_calls, text_runs, pdf_ret>>
    /\ UNCHANGED <<multi_i, generate_calls, sleeps, multi_ret>>
    /\ UNCHANGED <<split_vars, parse_vars, merge_vars, upload_vars, dir_vars>>

\* line 214: process_multi_chunk_document has returned, its result is returned
TextMultiReturn ==
    /\ pdf_pc = "multi"
    /\ multi_pc = "done"
    /\ pdf_ret' = multi_ret
    /\ pdf_pc' = "done"
    /\ UNCHANGED <<pdf_path, pdf_response, pdf_text, delete_calls, text_runs>>
    /\ UNCHANGED <<upload_vars, core_vars, dir_vars>>

\* lines 221-233: the single call of the text path; its response is parsed, an
\* exception gives the error result
TextGenerate ==
    /\ pdf_pc = "single"
    /\ \E outcome \in Outcomes, ts \in Timestamps :
         LET parsed == parse_json_response(outcome.text, "text_extraction", ts)
         IN  /\ generate_calls' = Append(generate_calls,
                                         [prompt |-> TextPrompt(pdf_text),
                                          outcome |-> outcome])
             /\ pdf_ret' = IF outcome.raised THEN ErrorResult(outcome.msg, pdf_path)
                           ELSE IF parsed.exc # "none" THEN ErrorResult(parsed.exc, pdf_path)
                           ELSE parsed.ret
    /\ pdf_pc' = "done"
    /\ UNCHANGED <<pdf_path, pdf_response, pdf_text, delete_calls, text_runs>>
    /\ UNCHANGED <<multi_chunks, multi_i, sleeps, multi_ret, multi_pc>>
    /\ UNCHANGED <<split_vars, parse_vars, merge_vars, upload_vars, dir_vars>>

\* the steps of process_pdf_with_gemini and of the functions it calls
PdfNext ==
    \/ PdfUpload \/ UploadNext \/ PdfUploaded \/ PdfGenerate \/ PdfCleanup \/ PdfParse
    \/ PdfFallback \/ TextExtract \/ SplitBegin \/ SplitParagraph \/ SplitReturn
    \/ TextSplit \/ MultiNext
    \/ TextMultiReturn \/ TextGenerate

\* line 154: the call
PdfInit ==
    /\ pdf_path \in PdfPaths
    /\ pdf_response = ""
    /\ pdf_text = ""
    /\ delete_calls = <<>>
    /\ text_runs = 0
    /\ pdf_ret = <<>>
    /\ pdf_pc = "call"
    /\ DirIdle
    /\ UploadIdle
    /\ SplitIdle
    /\ ParseIdle
    /\ MergeIdle
    /\ MultiIdle

SpecPdf == PdfInit /\ [][PdfNext]_vars

-----------------------------------------------------------------------------
(* process_directory, src/aiscript.py lines 459-553 *)

\* the texts of the responses of the service
ResponseTexts == {o.text : o \in {x \in Outcomes : ~x.raised}}

\* the messages of the calls of the service that raise
RaisedMessages == {o.msg : o \in {x \in Outcomes : x.raised}}

\* what parse_json_response returns for the responses under the tag m
ParsedResults(m) ==
    {parse_json_response(t, m, ts).ret : t \in ResponseTexts, ts \in Timestamps}

\* the entries process_multi_chunk_document records for chunk i (lines 300-308)
ChunkEntries(i) ==
    {ErrorMarker(e, i) : e \in RaisedMessages} \cup ParsedResults(ChunkMethod(i))

\* the lists of entries it hands to merge_chunk_results
RECURSIVE ChunkListsOf(_)
ChunkListsOf(n) ==
    IF n = 0 THEN {<<>>}
    ELSE {Append(l, e) : l \in ChunkListsOf(n - 1), e \in ChunkEntries(n)}
ChunkLists == UNION {ChunkListsOf(n) : n \in 2..MaxChunks}

\* the merged documents process_multi_chunk_document returns
MultiResults == UNION {merge_chunk_results(l) : l \in ChunkLists}

\* the results process_pdf_with_gemini returns for the document at path: the
\* parsed response of the direct call (line 179) or of the single call of the
\* text path (line 229), the error results of lines 206 and 233, or the
\* merged document of line 214
PdfResults(path) ==
    ParsedResults("direct_upload") \cup ParsedResults("text_extraction")
        \cup {ErrorResult(e, path) : e \in RaisedMessages}
        \cup {ErrorResult("Could not extract text from PDF", path)}
        \cup MultiResults

\* under SpecPdf: whatever process_pdf_with_gemini returns is one of PdfResults
PdfReturnsKnownResult == pdf_pc = "done" => pdf_ret \in PdfResults(pdf_path)

\* under SpecPdf: process_pdf_with_gemini has returned the error result of a
\* document without text, and the merged document of three chunks whose calls
\* all raised
PdfReturnedNoText ==
    pdf_pc = "done" /\ pdf_ret = ErrorResult("Could not extract text from PDF", pdf_path)
PdfReturnedAllChunksFailed ==
    /\ pdf_pc = "done"
    /\ Len(chunk_results) = 3
    /\ \A i \in 1..3 : chunk_results[i] = ErrorMarker("quota exceeded", i)
    /\ pdf_ret \in merge_chunk_results(chunk_results)

\* the documents of the directory
DocPaths == {IntStr(k) \o ".pdf" : k \in 1..MaxDocs}

\* the lists Path.glob can return: the documents of the directory, each once
FileLists ==
    UNION {{l \in [1..n -> DocPaths] : \A i, j \in 1..n : l[i] = l[j] => i = j} :
               n \in 0..MaxDocs}

\* pdf_path.stem
Stem(path) == Prefix(path, Len(path) - 4)

\* line 496
OutputFilename(path) == Stem(path) \o "_extracted.json"

\* the sizes pdf_path.stat() reports
FileSizes == {1024}

\* failures of the file system (str(e))
StatError == "No such file or directory"
WriteError == "No space left on device"

\* lines 500-502: the metadata added to the result
WithMetadata(data, path, size, ts) ==
    DictSet(DictSet(DictSet(data, "source_file", Str(path)),
                    "file_size_bytes", Num(size)),
            "extraction_timestamp", Str(ts))

\* lines 478-484
InitialResults(files) ==
    [total_files |-> Len(files), processed_successfully |-> 0, failed |-> 0,
     results |-> <<>>]

\* lines 516-522: the document is counted and recorded as a success
RecordSuccess(res, path, data) ==
    [res EXCEPT !.processed_successfully = @ + 1,
                !.results = Append(@, [file |-> path,
                                       status |-> "success",
                                       output |-> OutputFilename(path),
                                       method |-> GetOr(data, "processing_method",
                                                        Str("unknown")).v])]

\* RecordFailure leaving the document out of the summary
RecordFailure_Dropped(res, path, e) == res

\* lines 524-531: the handler of the document's try block
RecordFailure(res, path, e) ==
    [res EXCEPT !.failed = @ + 1,
                !.results = Append(@, [file |-> path, status |-> "failed", error |-> e])]

\* lines 467-484: makedirs and glob; makedirs may raise, which leaves
\* process_directory before any document is touched
DirBegin ==
    /\ dir_pc = "call"
    /\ \/ /\ pdf_files # <<>>
          /\ dir_results' = InitialResults(pdf_files)
          /\ dir_i' = 1
          /\ dir_pc' = "loop"
          /\ UNCHANGED dir_ret
       \/ /\ pdf_files = <<>>
          /\ dir_ret' = [error |-> "No PDF files found"]
          /\ dir_pc' = "done"
          /\ UNCHANGED <<dir_results, dir_i>>
       \/ /\ dir_pc' = "raised"
          /\ UNCHANGED <<dir_results, dir_i, dir_ret>>
    /\ UNCHANGED <<pdf_files, artifacts, dir_sleeps>>
    /\ UNCHANGED <<core_vars, upload_vars, pdf_vars>>

\* lines 486-536: one iteration of the loop: process_pdf_with_gemini returns
\* its result, the metadata is added (stat may raise), the artifact is
\* written (open or json.dump may raise; no complete artifact then), the
\* document is recorded, and the loop pauses unless the document is the last
DirDocument ==
    /\ dir_pc = "loop"
    /\ dir_i <= Len(pdf_files)
    /\ LET path == pdf_files[dir_i]
       IN  \E data \in PdfResults(path), size \in FileSizes, ts \in Timestamps,
              stat_ok \in BOOLEAN, write_ok \in BOOLEAN :
             IF ~stat_ok
             THEN /\ dir_results' = RecordFailure(dir_results, path, StatError)
                  /\ UNCHANGED artifacts
             ELSE IF ~write_ok
             THEN /\ dir_results' = RecordFailure(dir_results, path, WriteError)
                  /\ UNCHANGED artifacts
             ELSE /\ artifacts' = Append(artifacts,
                                         [output |-> OutputFilename(path),
                                          data |-> WithMetadata(data, path, size, ts)])
                  /\ dir_results' = RecordSuccess(dir_results, path, data)
    /\ dir_sleeps' = IF dir_i < Len(pdf_files) THEN Append(dir_sleeps, dir_i)
                     ELSE dir_sleeps
    /\ dir_i' = dir_i + 1
    /\ UNCHANGED <<pdf_files, dir_ret, dir_pc>>
    /\ UNCHANGED <<core_vars, upload_vars, pdf_vars>>

\* lines 539-553: the summary is written and returned; a failing write of the
\* summary raises out of process_directory
DirFinish ==
    /\ dir_pc = "loop"
    /\ dir_i > Len(pdf_files)
    /\ \/ /\ dir_ret' = dir_results
          /\ dir_pc' = "done"
       \/ /\ dir_pc' = "raised"
          /\ UNCHANGED dir_ret
    /\ UNCHANGED <<pdf_files, dir_i, dir_results, artifacts, dir_sleeps>>
    /\ UNCHANGED <<core_vars, upload_vars, pdf_vars>>

DirNext == DirBegin \/ DirDocument \/ DirFinish

\* line 459: the call
DirInit ==
    /\ pdf_files \in FileLists
    /\ dir_i = 0
    /\ dir_results = <<>>
    /\ artifacts = <<>>
    /\ dir_sleeps = <<>>
    /\ dir_ret = <<>>
    /\ dir_pc = "call"
    /\ UploadIdle
    /\ PdfIdle
    /\ SplitIdle
    /\ ParseIdle
    /\ MergeIdle
    /\ MultiIdle

SpecDir == DirInit /\ [][DirNext]_vars

-----------------------------------------------------------------------------
(* The splitter's claims, checked under SpecSplit *)

\* the text with every whitespace character removed
RECURSIVE NoSpace(_)
NoSpace(s) ==
    IF s = "" THEN ""
    ELSE (IF IsSpace(Ch(s, 1)) THEN "" ELSE Ch(s, 1)) \o NoSpace(Suffix(s, 1))

\* C1: when len(text) <= max_chars the returned list is exactly [text], the
\* text itself and not a stripped or re-joined copy, and splitting that one
\* element again returns the same list.
C1_ShortTextReturnedUnchanged ==
    (split_pc = "done" /\ Len(text) <= max_chars)
        => /\ split_ret = <<text>>
           /\ smart_text_split(split_ret[1], max_chars) = split_ret

\* a short text with surrounding whitespace has been returned as it is
C1_Witness ==
    /\ split_pc = "done"
    /\ Len(text) <= max_chars
    /\ Strip(text) # text
    /\ split_ret = <<text>>

\* the premise of C2: the text is too long and each of its blank-line
\* separated paragraphs fits
ParagraphsFit ==
    /\ Len(text) > max_chars
    /\ \A i \in DOMAIN Split(text, "\n\n") : Len(Split(text, "\n\n")[i]) <= max_chars

\* C2: for a text longer than max_chars whose paragraphs each fit, every
\* returned chunk has at most max_chars characters and the chunks concatenated
\* in order are the text, whitespace ignored.
C2_FittingParagraphsBoundedAndPreserved ==
    (split_pc = "done" /\ ParagraphsFit)
        => /\ \A i \in DOMAIN split_ret : Len(split_ret[i]) <= max_chars
           /\ NoSpace(Join(split_ret)) = NoSpace(text)

\* a long text of fitting paragraphs, one of them with two sentences, has been
\* split into several chunks
C2_Witness ==
    /\ split_pc = "done"
    /\ ParagraphsFit
    /\ Len(split_ret) >= 2
    /\ Contains(text, ". a")
    /\ Contains(text, "\n\na")

\* C3: every paragraph longer than max_chars is split on ". " whether or not
\* a chunk is being accumulated when it is reached, so that a returned chunk
\* longer than max_chars holds neither a paragraph separator "\n\n" nor a
\* sentence separator ". ".
C3_OversizedChunkIsIndivisible ==
    split_pc = "done"
        => \A i \in DOMAIN split_ret :
               Len(split_ret[i]) > max_chars
                   => /\ ~Contains(split_ret[i], "\n\n")
                      /\ ~Contains(split_ret[i], ". ")

\* C4: when the sentence loop runs over a paragraph longer than max_chars,
\* each of its sentences longer than max_chars is appended to chunks as its
\* first max_chars characters, whether the accumulator is empty or holds
\* earlier sentences when it is reached, and nothing longer than max_chars is
\* appended or left in the accumulator.
C4_LongSentenceTruncated ==
    [][(/\ split_pc = "loop"
        /\ paragraphs # <<>>
        /\ current_chunk = ""
        /\ Len(Head(paragraphs)) > max_chars)
       => LET sentences == Split(Head(paragraphs), ". ")
              new == SubSeq(chunks', Len(chunks) + 1, Len(chunks'))
          IN  /\ \A k \in DOMAIN sentences :
                     Len(sentences[k]) > max_chars
                         => \E i \in DOMAIN new : new[i] = Prefix(sentences[k], max_chars)
              /\ \A i \in DOMAIN new : Len(new[i]) <= max_chars
              /\ Len(current_chunk') <= max_chars]_vars

\* C30: for a text longer than max_chars, max_chars >= 2, without leading
\* or trailing whitespace, smart_text_split returns at least one chunk and
\* no returned chunk is empty or made of whitespace only, also when empty
\* paragraphs follow a truncated sentence.
C30_NoEmptyChunk ==
    (/\ split_pc = "done"
     /\ Len(text) > max_chars
     /\ max_chars >= 2
     /\ Strip(text) = text)
        => /\ Len(split_ret) >= 1
           /\ \A i \in DOMAIN split_ret : Strip(split_ret[i]) # ""

-----------------------------------------------------------------------------
(* The parser's claims, checked under SpecParse *)

\* parse_json_response has returned the object the service wrote, with the
\* two tags and nothing else
ReturnsSentObject ==
    /\ parse_pc = "done"
    /\ \E ts \in Timestamps : parse_ret = SuccessResult(sent.obj.v, method, ts)

\* the span the brace scan cut out of cleaned_text (line 415)
Span == SubSeq(cleaned_text, start_idx + 1, end_idx)

\* C5: a well-formed JSON object between a leading code fence (with or
\* without the json tag) and a trailing code fence is returned with exactly
\* its own fields plus processing_method = method and a timestamp, and with
\* no error, raw_response or json_error field.
C5_FencedObjectRecovered ==
    (/\ sent.kind = "object"
     /\ ~sent.comma
     /\ sent.lead = "" /\ sent.tail = ""
     /\ sent.open # "" /\ sent.close # ""
     /\ parse_pc \in {"done", "raised"})
        => ReturnsSentObject

\* C6: when the span the brace scan selects is a JSON object that is well
\* formed but for a trailing comma before a closing brace or bracket, the
\* object without the comma is returned, with no error field.
C6_TrailingCommaRepaired ==
    (/\ sent.kind = "object"
     /\ sent.comma
     /\ DOMAIN sent.obj.v # {}
     /\ parse_pc \in {"done", "raised"}
     /\ SpanFound
     /\ Span = Render(sent.obj, sent.pretty, TRUE))
        => ReturnsSentObject

\* C7: when a well-formed JSON object stands in explanatory prose (before,
\* after or both, with or without fences), the brace scan selects exactly the
\* text of the object and the returned result is that object, also when the
\* prose holds an unmatched closing brace before the object or a string of the
\* object holds a brace.
C7_ObjectInProseRecovered ==
    (/\ sent.kind = "object"
     /\ ~sent.comma
     /\ sent.lead # "" \/ sent.tail # "")
        => /\ parse_pc \in {"scanned", "loads", "done", "raised"}
                => SpanFound /\ Span = Render(sent.obj, sent.pretty, FALSE)
           /\ parse_pc \in {"done", "raised"} => ReturnsSentObject

\* the position of parse_json_response counted in steps from the call
PcRank(pc) ==
    CASE pc = "call" -> 0 [] pc = "scan" -> 1 [] pc = "scanned" -> 2
      [] pc = "loads" -> 3 [] pc = "done" -> 4 [] OTHER -> 5

\* C8: for every response text parse_json_response runs to its return without
\* an exception leaving it: it is always at one of its own positions or has
\* returned a result dict (tagged with processing_method), never left by an
\* exception, and every step moves it forward, so that it returns after at
\* most four steps.
C8_NeverRaises ==
    /\ [](/\ parse_exc = "none"
          /\ parse_pc \in {"call", "scan", "scanned", "loads", "done"}
          /\ parse_pc = "done" => "processing_method" \in DOMAIN parse_ret)
    /\ [][PcRank(parse_pc') > PcRank(parse_pc)]_vars

\* json.loads raised on the repaired span and a fallback was returned
C8_Witness ==
    /\ parse_pc = "done"
    /\ SpanFound
    /\ ~JsonLoads(json_str).ok
    /\ "json_error" \in DOMAIN parse_ret
    /\ parse_exc = "none"

\* C9: when the brace scan finds no balanced span the returned dict is the
\* fallback: an error tag, raw_response equal to the response text exactly as
\* passed in, processing_method = method, and no json_error or other field.
C9_NoSpanFallback ==
    (parse_pc = "done" /\ ~SpanFound)
        => /\ DOMAIN parse_ret = {"raw_response", "processing_method", "error", "note"}
           /\ parse_ret["raw_response"] = Str(response_text)
           /\ parse_ret["processing_method"] = Str(method)
           /\ parse_ret["error"].v # ""

\* a fenced response whose braces never balance was returned as it was
\* passed in, fence included
C9_Witness ==
    /\ parse_pc = "done"
    /\ ~SpanFound
    /\ start_idx # -1
    /\ StartsWith(response_text, Fence)
    /\ cleaned_text # response_text
    /\ parse_ret["raw_response"] = Str(response_text)

\* C10: when a span is found and the repaired span is not valid JSON, the
\* returned dict is the fallback with error = "JSON parsing failed",
\* json_error = the decoder's message, raw_response = the response text as
\* passed in, and no field of the span; and every returned dict holds
\* raw_response exactly when it holds error.
C10_DecodeErrorFallback ==
    /\ (parse_pc = "done" /\ SpanFound /\ ~JsonLoads(json_str).ok)
          => /\ DOMAIN parse_ret =
                    {"raw_response", "processing_method", "json_error", "error", "note"}
             /\ parse_ret["error"] = Str("JSON parsing failed")
             /\ parse_ret["json_error"] = Str(JsonLoads(json_str).msg)
             /\ parse_ret["raw_response"] = Str(response_text)
             /\ parse_ret["processing_method"] = Str(method)
    /\ parse_pc = "done"
          => ("raw_response" \in DOMAIN parse_ret <=> "error" \in DOMAIN parse_ret)

\* an object with the key "error", written with surrounding whitespace, did
\* not decode after the repair and came back as the fallback
C10_Witness ==
    /\ parse_pc = "done"
    /\ SpanFound
    /\ sent.kind = "object"
    /\ "error" \in DOMAIN sent.obj.v
    /\ cleaned_text # response_text
    /\ parse_ret["error"] = Str("JSON parsing failed")
    /\ parse_ret["raw_response"] = Str(response_text)

-----------------------------------------------------------------------------
(* The merger's claims, checked under SpecMerge *)

\* the entries of a list without an error field, in order
RECURSIVE NonErrors(_)
NonErrors(results) ==
    IF results = <<>> THEN <<>>
    ELSE (IF "error" \in DOMAIN Head(results) THEN <<>> ELSE <<Head(results)>>)
             \o NonErrors(Tail(results))

\* the lists of a list of lists one after the other
RECURSIVE Concat(_)
Concat(lists) == IF lists = <<>> THEN <<>> ELSE Head(lists) \o Concat(Tail(lists))

\* field f of every entry of the list, with default where an entry has none
FieldOver(results, f, default) ==
    [i \in DOMAIN results |-> GetOr(results[i], f, default)]

\* field f of main_content of every entry of the list
MainFieldOver(results, f, default) ==
    [i \in DOMAIN results |->
        GetOr(GetOr(results[i], "main_content", Obj(<<>>)).v, f, default)]

\* the values v of a list of JSON values
Values(list) == [i \in DOMAIN list |-> list[i].v]

\* the first index of list that holds x
FirstIndex(list, x) ==
    CHOOSE i \in DOMAIN list : list[i] = x /\ \A j \in 1..(i - 1) : list[j] # x

\* no element occurs twice
NoDuplicates(list) == \A i, j \in DOMAIN list : i # j => list[i] # list[j]

\* C11: the merged key_points hold every string of the key_points lists of
\* the non-error chunks exactly once, ordered by first occurrence in the
\* concatenation of those lists in chunk order.
C11_KeyPointsFirstSeenOrder ==
    merge_pc = "done"
        => LET all == Concat(Values(MainFieldOver(NonErrors(chunk_results),
                                                  "key_points", Arr(<<>>))))
               kp == merge_ret["main_content"].v["key_points"].v
           IN  /\ NoDuplicates(kp)
               /\ Range(kp) = Range(all)
               /\ \A i, j \in DOMAIN kp :
                      i < j => FirstIndex(all, kp[i]) < FirstIndex(all, kp[j])

\* the lists [a, b] and [b, c] have been merged into [a, b, c]
C11_Witness ==
    /\ merge_pc = "done"
    /\ Len(chunk_results) = 2
    /\ MainFieldOver(chunk_results, "key_points", Arr(<<>>))
           = <<StrList("", <<"a", "b">>), StrList("", <<"b", "c">>)>>
    /\ merge_ret["main_content"].v["key_points"] = StrList("", <<"a", "b", "c">>)

\* category e of important_entities of a chunk result, [] when missing
EntitiesOf(r, e) ==
    GetOr(GetOr(r, "important_entities", Obj(<<>>)).v, e, Arr(<<>>)).v

\* C12: merging the one-element list [r], r a non-error result without
\* duplicates in key_points and in the entity lists, gives r in every
\* canonical field (document_info, purpose, summary, key_points, the five
\* array fields, the six entity categories as sets, full_text_content), with
\* processing_method = "multi_chunk" and total_chunks = 1.
C12_SingleChunkMergeIsIdentity ==
    (/\ merge_pc = "done"
     /\ Len(chunk_results) = 1
     /\ "error" \notin DOMAIN chunk_results[1]
     /\ NoDuplicates(MainFieldOver(chunk_results, "key_points", Arr(<<>>))[1].v)
     /\ \A k \in DOMAIN EntityTypes :
            NoDuplicates(EntitiesOf(chunk_results[1], EntityTypes[k])))
        => LET r == chunk_results[1]
               main == GetOr(r, "main_content", Obj(<<>>)).v
               out == merge_ret["main_content"].v
           IN  /\ merge_ret["document_info"] = GetOr(r, "document_info", Obj(<<>>))
               /\ out["purpose"] = GetOr(main, "purpose", Str(""))
               /\ out["summary"] = GetOr(main, "summary", Str(""))
               /\ out["key_points"] = GetOr(main, "key_points", Arr(<<>>))
               /\ \A k \in DOMAIN ArrayFields :
                      merge_ret[ArrayFields[k]] = GetOr(r, ArrayFields[k], Arr(<<>>))
               /\ \A k \in DOMAIN EntityTypes :
                      Range(merge_ret["important_entities"].v[EntityTypes[k]].v)
                          = Range(EntitiesOf(r, EntityTypes[k]))
               /\ merge_ret["full_text_content"] = GetOr(r, "full_text_content", Str(""))
               /\ merge_ret["processing_method"] = Str("multi_chunk")
               /\ merge_ret["total_chunks"] = Num(1)

\* C13: the result of merge_chunk_results is tagged processing_method =
\* "multi_chunk" and its total_chunks is the length of the list passed in,
\* error entries counted, also when every entry is an error entry.
C13_TaggedWithInputLength ==
    merge_pc = "done"
        => /\ merge_ret["processing_method"] = Str("multi_chunk")
           /\ merge_ret["total_chunks"] = Num(Len(chunk_results))

\* a list of three error entries has been merged
C13_Witness ==
    /\ merge_pc = "done"
    /\ Len(chunk_results) = 3
    /\ NonErrors(chunk_results) = <<>>
    /\ merge_ret["total_chunks"] = Num(3)

\* a dict without its key total_chunks
WithoutTotal(m) == [k \in DOMAIN m \ {"total_chunks"} |-> m[k]]

\* a merged dict with every entity list taken as the set of its elements
EntitiesAsSets(m) ==
    [m EXCEPT !["important_entities"] =
        [k \in DOMAIN m["important_entities"].v |-> Range(m["important_entities"].v[k].v)]]

\* C14: entries with an error field contribute nothing: the result for a
\* list is, in every field but total_chunks (the entity lists taken as
\* sets, their order being unspecified), the result for the list with its
\* error entries removed.
C14_ErrorEntriesContributeNothing ==
    merge_pc = "done"
        => \E m \in merge_chunk_results(NonErrors(chunk_results)) :
               EntitiesAsSets(WithoutTotal(merge_ret)) = EntitiesAsSets(WithoutTotal(m))

\* chunk 2 of 3 is an error entry that holds sections and key points of its
\* own; the merged detailed_sections are those of chunk 1 followed by those
\* of chunk 3, and no key point of chunk 2 is in the merged key_points
C14_Witness ==
    /\ merge_pc = "done"
    /\ Len(chunk_results) = 3
    /\ "error" \in DOMAIN chunk_results[2]
    /\ Truthy(Get(chunk_results[2], "detailed_sections"))
    /\ "error" \notin DOMAIN chunk_results[1]
    /\ "error" \notin DOMAIN chunk_results[3]
    /\ Truthy(Get(chunk_results[1], "detailed_sections"))
    /\ Truthy(Get(chunk_results[3], "detailed_sections"))
    /\ merge_ret["detailed_sections"].v
           = chunk_results[1]["detailed_sections"].v \o chunk_results[3]["detailed_sections"].v
    /\ Range(merge_ret["main_content"].v["key_points"].v)
           \cap Range(chunk_results[2]["main_content"].v["key_points"].v) = {}

\* the first truthy value of a list, empty when there is none
FirstTruthy(values, empty) ==
    LET idx == {i \in DOMAIN values : Truthy(values[i])}
    IN  IF idx = {} THEN empty ELSE values[CHOOSE i \in idx : \A j \in idx : i <= j]

\* C15: merged document_info is the document_info of the first non-error
\* chunk that has a non-empty one, merged purpose the purpose of the first
\* non-error chunk that has a non-empty one; later values never replace them
\* and each stays empty when no chunk has a non-empty value.
C15_FirstNonEmptyWins ==
    merge_pc = "done"
        => /\ merge_ret["document_info"]
                  = FirstTruthy(FieldOver(NonErrors(chunk_results), "document_info", None),
                                Obj(<<>>))
           /\ merge_ret["main_content"].v["purpose"]
                  = FirstTruthy(MainFieldOver(NonErrors(chunk_results), "purpose", None),
                                Str(""))

\* the first chunk has a purpose and no document_info, the second both, the
\* third a document_info: the purpose of the first and the document_info of
\* the second are kept
C15_Witness ==
    /\ merge_pc = "done"
    /\ chunk_results = <<HeadChunk(Obj(<<>>), Str("P1")),
                         HeadChunk(Obj([title |-> Str("D1")]), Str("P2")),
                         HeadChunk(Obj([title |-> Str("D2")]), None)>>
    /\ merge_ret["document_info"] = Obj([title |-> Str("D1")])
    /\ merge_ret["main_content"].v["purpose"] = Str("P1")

\* the non-empty strings of a list of str values, in order
RECURSIVE NonEmptyStrings(_)
NonEmptyStrings(values) ==
    IF values = <<>> THEN <<>>
    ELSE (IF Head(values).v = "" THEN <<>> ELSE <<Head(values).v>>)
             \o NonEmptyStrings(Tail(values))

\* C16: merged summary is the non-empty summaries of the non-error chunks
\* in chunk order with one space between consecutive summaries and nothing
\* before the first or after the last: a single summary s gives exactly s.
C16_SummarySpaceSeparated ==
    merge_pc = "done"
        => merge_ret["main_content"].v["summary"].v
               = JoinWith(NonEmptyStrings(MainFieldOver(NonErrors(chunk_results),
                                                        "summary", Str(""))), " ")

\* C17: merged full_text_content is the non-empty full_text_content values
\* of the non-error chunks in chunk order with "\n\n" between consecutive
\* values and nothing before the first or after the last.
C17_FullTextBlankLineSeparated ==
    merge_pc = "done"
        => merge_ret["full_text_content"].v
               = JoinWith(NonEmptyStrings(FieldOver(NonErrors(chunk_results),
                                                    "full_text_content", Str(""))), "\n\n")

\* C18: each of the five array fields of the result is the concatenation,
\* in chunk order, of that field over the non-error chunks, duplicates
\* kept (so its length is the sum of the chunks' lengths).
C18_ArrayFieldsConcatenated ==
    merge_pc = "done"
        => \A k \in DOMAIN ArrayFields :
               merge_ret[ArrayFields[k]].v
                   = Concat(Values(FieldOver(NonErrors(chunk_results),
                                             ArrayFields[k], Arr(<<>>))))

\* two chunks around an error entry each hold the same entry twice in
\* their sections; the merged sections hold it four times
C18_Witness ==
    /\ merge_pc = "done"
    /\ Len(chunk_results) = 3
    /\ "error" \in DOMAIN chunk_results[2]
    /\ Get(chunk_results[1], "detailed_sections") = StrList("section", <<"1", "1">>)
    /\ Get(chunk_results[3], "detailed_sections") = StrList("section", <<"1", "1">>)
    /\ merge_ret["detailed_sections"] = StrList("section", <<"1", "1", "1", "1">>)
    /\ merge_ret["definitions"] = StrList("term", <<"1", "1", "1", "1">>)

\* C19: for each of the six entity categories the merged list holds no
\* string twice and its elements are the union of that category over the
\* non-error chunks (nothing for a chunk without the category); the merged
\* important_entities has the six categories and no other.
C19_EntitiesDeduplicatedUnion ==
    merge_pc = "done"
        => /\ DOMAIN merge_ret["important_entities"].v = Range(EntityTypes)
           /\ \A k \in DOMAIN EntityTypes :
                  LET list == merge_ret["important_entities"].v[EntityTypes[k]].v
                  IN  /\ NoDuplicates(list)
                      /\ Range(list)
                             = UNION {Range(EntitiesOf(NonErrors(chunk_results)[i],
                                                       EntityTypes[k])) :
                                         i \in DOMAIN NonErrors(chunk_results)}

\* chunks with people [Ann, Ann], [Ann, Bob] and [Bob, Cy], one of them
\* with a category outside the six and one without dates, have been merged
\* into Ann, Bob and Cy once each, in an order other than first occurrence
C19_Witness ==
    /\ merge_pc = "done"
    /\ Len(chunk_results) = 3
    /\ \A i \in 1..3 : "error" \notin DOMAIN chunk_results[i]
    /\ EntitiesOf(chunk_results[1], "people") = StrList("", <<"Ann", "Ann">>).v
    /\ EntitiesOf(chunk_results[2], "people") = StrList("", <<"Ann", "Bob">>).v
    /\ EntitiesOf(chunk_results[3], "people") = StrList("", <<"Bob", "Cy">>).v
    /\ "misc" \in DOMAIN chunk_results[1]["important_entities"].v
    /\ "dates" \notin DOMAIN chunk_results[2]["important_entities"].v
    /\ merge_ret["important_entities"].v["people"] = StrList("", <<"Cy", "Ann", "Bob">>)
    /\ merge_ret["important_entities"].v["dates"] = StrList("", <<"2024">>)

-----------------------------------------------------------------------------
(* The orchestrator's claims, checked under SpecMulti *)

\* C20: once the loop of process_multi_chunk_document is over, the service
\* has received exactly one generate call per chunk, in chunk order 1..N,
\* whatever calls failed, and merge_chunk_results is handed a list of exactly
\* N entries whose entry i is the error marker of chunk i when call i raised
\* and the parse result of response i otherwise; while the loop runs, every
\* chunk before the index has its call and its entry.
C20_EveryChunkCalledAndRecorded ==
    LET N == Len(multi_chunks)
        done == IF multi_pc \in {"merge", "done"} THEN N
                ELSE IF multi_pc = "loop" THEN multi_i - 1 ELSE 0
    IN  /\ multi_pc \in {"call", "loop", "merge", "done"}
        /\ multi_pc = "loop" => multi_i \in 1..(N + 1)
        /\ Len(generate_calls) = done
        /\ multi_pc # "call" => Len(chunk_results) = done
        /\ \A i \in 1..done :
               /\ generate_calls[i].prompt.part = i
               /\ generate_calls[i].prompt.chunk = multi_chunks[i]
               /\ IF generate_calls[i].outcome.raised
                  THEN chunk_results[i] = ErrorMarker(generate_calls[i].outcome.msg, i)
                  ELSE \E ts \in Timestamps :
                           chunk_results[i]
                               = parse_json_response(generate_calls[i].outcome.text,
                                                     ChunkMethod(i), ts).ret
        /\ multi_pc = "done" => multi_ret["total_chunks"] = Num(N)

\* of three chunks the calls for the first and the second raised, the third
\* was still called and decoded, and the document was returned
C20_Witness ==
    /\ multi_pc = "done"
    /\ Len(multi_chunks) = 3
    /\ Len(generate_calls) = 3
    /\ generate_calls[1].outcome.raised
    /\ generate_calls[2].outcome.raised
    /\ ~generate_calls[3].outcome.raised
    /\ chunk_results[1] = ErrorMarker("quota exceeded", 1)
    /\ "error" \notin DOMAIN chunk_results[3]
    /\ multi_ret["total_chunks"] = Num(3)

\* C21: between every two consecutive generate calls the pause of line 304
\* is executed: when the call for chunk i + 1 has been made, the pause that
\* follows chunk i has run, whether the call for chunk i returned or raised.
C21_PauseBetweenCalls ==
    \A i \in 1..(Len(generate_calls) - 1) : \E k \in DOMAIN sleeps : sleeps[k] = i

\* C29: entry i of the list of chunk results identifies chunk i: it is an
\* error marker with chunk = i or a parse result, decoded or fallback, with
\* processing_method = "chunk_i"; and the prompt of call i states part i of
\* the same total N, the number of chunks.
C29_EntriesIdentifyTheirChunk ==
    multi_pc \in {"loop", "merge", "done"}
        => /\ \A i \in DOMAIN chunk_results :
                  \/ /\ DOMAIN chunk_results[i] = {"error", "chunk"}
                     /\ chunk_results[i]["chunk"] = Num(i)
                  \/ /\ "processing_method" \in DOMAIN chunk_results[i]
                     /\ "chunk" \notin DOMAIN chunk_results[i]
                     /\ chunk_results[i]["processing_method"] = Str("chunk_" \o IntStr(i))
           /\ \A i \in DOMAIN generate_calls :
                  /\ generate_calls[i].prompt.part = i
                  /\ generate_calls[i].prompt.of = Len(multi_chunks)

\* three chunks gave a decoded result, a fallback and an error marker, in
\* this order, tagged chunk_1, chunk_2 and 3
C29_Witness ==
    /\ multi_pc = "done"
    /\ Len(chunk_results) = 3
    /\ DOMAIN chunk_results[1] = {"processing_method", "processed_timestamp"}
    /\ chunk_results[1]["processing_method"] = Str("chunk_1")
    /\ "raw_response" \in DOMAIN chunk_results[2]
    /\ chunk_results[2]["processing_method"] = Str("chunk_2")
    /\ chunk_results[3] = ErrorMarker("deadline exceeded", 3)
    /\ generate_calls[3].prompt = ChunkPrompt(3, 3, multi_chunks[3])

-----------------------------------------------------------------------------
(* The claims about upload_pdf_to_gemini, checked under SpecUpload *)

\* C28: upload_pdf_to_gemini polls until the file is no longer PROCESSING;
\* with a service that reports PROCESSING only finitely often the call
\* terminates; it returns the file it last saw as the handle exactly when no
\* call of the service raised and that file is not FAILED, and None otherwise;
\* the handle it returns is never PROCESSING, and no exception leaves it.
C28_UploadTerminates ==
    /\ [](upload_pc = "done" =>
              LET raised == upload_caught \in ServiceErrors
                  final == IF uploaded_file = <<>> THEN "" ELSE uploaded_file.state
              IN  /\ ~raised => final \in {"STATE_UNSPECIFIED", "ACTIVE", "FAILED"}
                  /\ IF ~raised /\ final # "FAILED"
                     THEN /\ upload_ret = uploaded_file
                          /\ upload_ret.state # "PROCESSING"
                          /\ upload_caught = "none"
                     ELSE upload_ret = None)
    /\ [](upload_pc \in {"call", "poll", "slept", "raised", "done"})
    /\ <>(upload_pc = "done")

\* the file was PROCESSING twice, then ACTIVE, and is returned
C28_Witness ==
    /\ upload_pc = "done"
    /\ upload_sleeps = 2
    /\ upload_ret = File("files/1", "ACTIVE")

-----------------------------------------------------------------------------
(* The claims about process_pdf_with_gemini and process_text_with_gemini,    *)
(* checked under SpecPdf                                                     *)

\* upload_pdf_to_gemini has returned a handle
HasHandle == upload_pc = "done" /\ upload_ret # None

\* the positions of the generate calls made with an uploaded file, with the
\* whole text, and with a chunk
DirectCalls == {i \in DOMAIN generate_calls : "file" \in DOMAIN generate_calls[i].prompt}
WholeTextCalls == {i \in DOMAIN generate_calls : "content" \in DOMAIN generate_calls[i].prompt}
ChunkCalls == {i \in DOMAIN generate_calls : "chunk" \in DOMAIN generate_calls[i].prompt}

\* the direct call has been made and the code is past its cleanup
PastDirectCall == pdf_pc \in {"parse", "text", "split", "multi", "single", "done"}

\* C22: a handle returned by the upload is used for at most one generate
\* call, and delete_file is called for it exactly once on every path out of
\* the direct call, whether the call returned or raised and the text path
\* ran; without a handle nothing is deleted; a delete_file that raises stops
\* nothing: after a response the result is the parsed response and the text
\* path does not run, after a raised call the text path runs once.
C22_HandleReleasedOnce ==
    /\ Cardinality(DirectCalls) <= 1
    /\ \A i \in DirectCalls :
           /\ i = 1
           /\ HasHandle
           /\ generate_calls[i].prompt.file = upload_ret.name
    /\ Len(delete_calls) <= 1
    /\ \A k \in DOMAIN delete_calls :
           /\ HasHandle
           /\ delete_calls[k].name = upload_ret.name
           /\ DirectCalls = {1}
    /\ PastDirectCall => Len(delete_calls) = (IF HasHandle THEN 1 ELSE 0)
    /\ (pdf_pc = "done" /\ HasHandle) =>
           /\ DirectCalls = {1}
           /\ IF generate_calls[1].outcome.raised
              THEN text_runs = 1
              ELSE /\ text_runs = 0
                   /\ \E ts \in Timestamps :
                          pdf_ret = parse_json_response(generate_calls[1].outcome.text,
                                                        "direct_upload", ts).ret

\* the direct call raised, delete_file raised too, and the text path still
\* ran and returned a parsed result
C22_Witness ==
    /\ pdf_pc = "done"
    /\ HasHandle
    /\ generate_calls[1].outcome.raised
    /\ delete_calls = <<[name |-> upload_ret.name, raised |-> TRUE]>>
    /\ text_runs = 1
    /\ "processing_method" \in DOMAIN pdf_ret
    /\ pdf_ret["processing_method"] = Str("text_extraction")

\* the direct-upload call was made and raised
DirectCallRaised == DirectCalls = {1} /\ generate_calls[1].outcome.raised

\* the direct-upload call was made and returned a response
DirectCallReturned == DirectCalls = {1} /\ ~generate_calls[1].outcome.raised

\* what the text path returns in a state where it has returned: the error
\* result without text, the merged document after the chunk calls, or the
\* result of the single call
TextPathResults ==
    IF pdf_text = "" THEN {ErrorResult("Could not extract text from PDF", pdf_path)}
    ELSE IF multi_pc = "done" THEN {multi_ret}
    ELSE LET c == generate_calls[Len(generate_calls)]
         IN  IF "content" \notin DOMAIN c.prompt THEN {}
             ELSE IF c.outcome.raised THEN {ErrorResult(c.outcome.msg, pdf_path)}
             ELSE {parse_json_response(c.outcome.text, "text_extraction", ts).ret :
                       ts \in Timestamps}

\* the text path has failed: no text, or its single call raised or brought a
\* response that could not be parsed
TextPathFailed ==
    \/ pdf_text = ""
    \/ /\ WholeTextCalls # {}
       /\ LET c == generate_calls[Len(generate_calls)]
          IN  \/ c.outcome.raised
              \/ \A ts \in Timestamps :
                     "error" \in DOMAIN parse_json_response(c.outcome.text,
                                                            "text_extraction", ts).ret

\* C23: when the upload gives no handle (an exception or the FAILED state) or
\* the direct-upload call raises, process_text_with_gemini runs exactly once
\* and its result is the document's result, which carries an error only if the
\* text path itself failed; when the direct-upload call returned a response
\* the text path never runs.
C23_FallbackRunsOnce ==
    /\ text_runs <= 1
    /\ text_runs = 1 => (upload_pc = "done" /\ (~HasHandle \/ DirectCallRaised))
    /\ DirectCallReturned => text_runs = 0
    /\ pdf_pc = "done" =>
           /\ (~HasHandle \/ DirectCallRaised) =>
                  /\ text_runs = 1
                  /\ pdf_ret \in TextPathResults
                  /\ "error" \in DOMAIN pdf_ret => TextPathFailed
           /\ ~HasHandle => upload_caught # "none"
           /\ HasHandle => upload_caught = "none"

\* the uploaded file ended FAILED, the text path ran and its single call
\* returned a response that was parsed: the result carries no error
C23_Witness ==
    /\ pdf_pc = "done"
    /\ upload_caught = "File processing failed: FAILED"
    /\ upload_ret = None
    /\ text_runs = 1
    /\ DirectCalls = {}
    /\ Len(generate_calls) = 1
    /\ pdf_ret = SuccessResult(<<>>, "text_extraction", "2025-01-01 00:00:00")

\* the text path has returned
TextPathDone == pdf_pc = "done" /\ text_runs = 1

\* the extracted text fits into one call
TextFits == pdf_text # "" /\ Len(pdf_text) <= TextMaxChars

\* the extracted text was split into more than one chunk
TextSplitInChunks == split_pc = "done" /\ Len(split_ret) > 1

\* the routes of the text path for a text that was split and for an empty
\* text, and the texts a whole-document call may hold
C24_SplitAndEmptyRoutes ==
    /\ WholeTextCalls = {} \/ ChunkCalls = {}
    /\ Cardinality(WholeTextCalls) <= 1
    /\ \A i \in WholeTextCalls :
           LET content == generate_calls[i].prompt.content
           IN  \/ content # "" /\ Len(content) <= TextMaxChars
               \/ /\ split_pc = "done"
                  /\ Len(split_ret) <= 1
                  /\ Len(text) > TextMaxChars
                  /\ content = Prefix(text, TextMaxChars) \o TruncationMarker
    /\ (TextPathDone /\ TextSplitInChunks) =>
           /\ WholeTextCalls = {}
           /\ Cardinality(ChunkCalls) = Len(split_ret)
           /\ \A k \in 1..Len(split_ret) :
                  LET c == generate_calls[Len(generate_calls) - Len(split_ret) + k]
                  IN  /\ "chunk" \in DOMAIN c.prompt
                      /\ c.prompt = ChunkPrompt(k, Len(split_ret), split_ret[k])
           /\ merge_pc = "done"
           /\ Len(chunk_results) = Len(split_ret)
           /\ pdf_ret = merge_ret
           /\ pdf_ret["processing_method"] = Str("multi_chunk")
    /\ (TextPathDone /\ pdf_text = "") =>
           /\ pdf_ret = ErrorResult("Could not extract text from PDF", pdf_path)
           /\ WholeTextCalls = {}
           /\ ChunkCalls = {}
           /\ split_pc = "idle"

\* C24 as stated: in process_text_with_gemini a text of at most max_chars
\* characters leads to exactly one generate call and a result tagged
\* text_extraction; a longer text that splits into more than one chunk leads
\* to one call per chunk, then one merge and a result tagged multi_chunk, and
\* never to a call with the whole document; an empty text leads to an error
\* result and no generate call.
C24_RouteFixedBySize_AsStated ==
    /\ C24_SplitAndEmptyRoutes
    /\ (TextPathDone /\ TextFits) =>
           /\ Cardinality(WholeTextCalls) = 1
           /\ ChunkCalls = {}
           /\ "processing_method" \in DOMAIN pdf_ret
           /\ pdf_ret["processing_method"] = Str("text_extraction")

\* C24, amended: as stated, except that for a text of at most max_chars
\* characters the result is tagged text_extraction when the single generate
\* call returned a response; when that call raised, the result is the error
\* result {error, file}, which carries no tag.
C24_RouteFixedBySize ==
    /\ C24_SplitAndEmptyRoutes
    /\ (TextPathDone /\ TextFits) =>
           /\ Cardinality(WholeTextCalls) = 1
           /\ ChunkCalls = {}
           /\ LET c == generate_calls[Len(generate_calls)]
              IN  /\ c.prompt = TextPrompt(pdf_text)
                  /\ IF c.outcome.raised
                     THEN pdf_ret = ErrorResult(c.outcome.msg, pdf_path)
                     ELSE /\ "processing_method" \in DOMAIN pdf_ret
                          /\ pdf_ret["processing_method"] = Str("text_extraction")

\* a text of three chunks was sent in three chunk calls, of which the second
\* raised, and the merged document was returned
C24_Witness ==
    /\ TextPathDone
    /\ Len(split_ret) = 3
    /\ Cardinality(ChunkCalls) = 3
    /\ WholeTextCalls = {}
    /\ generate_calls[Len(generate_calls) - 1].outcome.raised
    /\ pdf_ret["processing_method"] = Str("multi_chunk")
    /\ pdf_ret["total_chunks"] = Num(3)

-----------------------------------------------------------------------------
(* The claims about process_directory, checked under SpecDir *)

\* the entries of the summary with the status s
EntriesWithStatus(res, s) == {j \in DOMAIN res.results : res.results[j].status = s}

\* C25: for every non-empty list of documents and every pattern of failures,
\* the documents are processed in order and none is skipped: after the k-th
\* document the summary has exactly k entries, entry j names document j, and
\* processed_successfully + failed = k; when the loop is left k = total_files,
\* so no failure of a document stops the loop.
C25_EveryDocumentRecorded ==
    (dir_pc \in {"loop", "done", "raised"} /\ pdf_files # <<>> /\ dir_results # <<>>) =>
        LET k == dir_i - 1
        IN  /\ dir_i \in 1..(Len(pdf_files) + 1)
            /\ dir_results.total_files = Len(pdf_files)
            /\ Len(dir_results.results) = k
            /\ \A j \in 1..k : dir_results.results[j].file = pdf_files[j]
            /\ dir_results.processed_successfully + dir_results.failed = k
            /\ dir_results.processed_successfully
                   = Cardinality(EntriesWithStatus(dir_results, "success"))
            /\ dir_results.failed = Cardinality(EntriesWithStatus(dir_results, "failed"))
            /\ \A j \in 1..k : dir_results.results[j].status \in {"success", "failed"}
            /\ dir_pc \in {"done", "raised"} => k = dir_results.total_files
            /\ dir_pc = "done" => dir_ret = dir_results

\* of two documents the first failed on its write and the second was still
\* processed and recorded
C25_Witness ==
    /\ dir_pc = "done"
    /\ Len(pdf_files) = 2
    /\ Len(dir_ret.results) = 2
    /\ dir_ret.results[1] = [file |-> pdf_files[1], status |-> "failed", error |-> WriteError]
    /\ dir_ret.results[2].status = "success"
    /\ dir_ret.results[2].file = pdf_files[2]
    /\ dir_ret.processed_successfully = 1
    /\ dir_ret.failed = 1

\* d is an error result of process_pdf_with_gemini (lines 196, 206, 233)
IsErrorResult(d) == "error" \in DOMAIN d /\ "file" \in DOMAIN d

\* the data process_pdf_with_gemini returned for the document of the summary
\* entry e, where it was written
WrittenFor(e) == {artifacts[n].data : n \in {m \in DOMAIN artifacts :
                                                 artifacts[m].output = e.output}}

\* C26: a document for which process_pdf_with_gemini returned an error result
\* (both paths failed, or no text could be extracted) is recorded in the
\* summary with status failed and counted in failed: no entry with status
\* success belongs to a document whose result is an error result.
C26_ErrorResultsRecordedAsFailed ==
    (dir_pc \in {"loop", "done"} /\ dir_results # <<>>) =>
        \A j \in DOMAIN dir_results.results :
            LET e == dir_results.results[j]
            IN  e.status = "success" => \A d \in WrittenFor(e) : ~IsErrorResult(d)

\* the merged documents process_multi_chunk_document returns when every chunk
\* failed: every entry is an error marker or a parse fallback
AllChunksFailedResults ==
    UNION {merge_chunk_results(l) :
               l \in {x \in ChunkLists : \A i \in DOMAIN x : "error" \in DOMAIN x[i]}}

\* an artifact without the metadata of lines 500-502
WithoutMetadata(d) ==
    [k \in DOMAIN d \ {"source_file", "file_size_bytes", "extraction_timestamp"} |-> d[k]]

\* C27: when the storage accepts every write, every document of a run yields
\* exactly one artifact, and each artifact holds extracted structured data
\* (the parsed object of a response, or a merged document) or is a fallback
\* with an error field, and with the raw response where there was one; the
\* artifact of a multi-chunk document all of whose chunks failed is not an
\* empty structure without an error field.
C27_ArtifactsDiagnosable ==
    (dir_pc = "done" /\ pdf_files # <<>> /\ dir_ret.failed = 0) =>
        /\ Len(artifacts) = Len(pdf_files)
        /\ \A j \in DOMAIN pdf_files :
               /\ artifacts[j].output = OutputFilename(pdf_files[j])
               /\ artifacts[j].data["source_file"] = Str(pdf_files[j])
               /\ LET d == artifacts[j].data
                  IN  \/ "error" \in DOMAIN d
                      \/ /\ d["processing_method"] \in {Str("direct_upload"),
                                                        Str("text_extraction")}
                         /\ "raw_response" \notin DOMAIN d
                      \/ /\ d["processing_method"] = Str("multi_chunk")
                         /\ WithoutMetadata(d) \notin AllChunksFailedResults

=============================================================================
